---------------------------- MODULE Spec2Model ----------------------------
(***************************************************************************)
(* Model of the incremental stats-ingestion pipeline of NHL_Fantasy_tool:  *)
(* PlayerStatsProcessor (src/src/api/player_stats_fetcher.py), its helpers *)
(* (src/src/api/helpers.py), the merge helper of src/src/database/utils.py *)
(* and the full rebuild of src/scripts/seed_pro_players.py.                *)
(*                                                                         *)
(* Conventions.  A Python dict is a function whose DOMAIN is its key set.  *)
(* An Optional[int] is <<>> (None) or <<v>>.  Fantasy points are kept in   *)
(* hundredths of a point, so round(x, 2) of the source is exact.  The      *)
(* pass-through columns gameDate, toi, shifts, pim, sweaterNumber and      *)
(* savePctg take part in no decision and are left out of the records.      *)
(***************************************************************************)
EXTENDS Integers, Sequences, FiniteSets, TLC

(* ------------------------------ bounds --------------------------------- *)
NumGames == 2
NumPlayers == 1
MaxRuns == 2
MaxDamage == 1
MaxDrift == 1
NumTeams == 2
MaxItems == 4
MaxNameLen == 5
MaxFresh == 3
MaxRoster == 2
\* constants.CONCURRENCY_LIMIT (50 unless the environment says otherwise),
\* scaled down with the number of tasks
CONCURRENCY_LIMIT == 2

Games == 1..NumGames
Players == 1..NumPlayers

(* --------------------------- program constants ------------------------- *)
GOALIE_POSITIONS == {"G"}
WIN_DECISION == "W"
OT_LOSS_DECISION == "O"

\* SKATER_FPTS_WEIGHTS and GOALIE_FPTS_WEIGHTS, in hundredths of a point
SKATER_FPTS_WEIGHTS ==
    [goals |-> 200, assists |-> 100, ppPoints |-> 50, shPoints |-> 50,
     shots |-> 10, blockedShots |-> 50, hits |-> 10]
GOALIE_FPTS_WEIGHTS ==
    [wins |-> 400, goalsAgainst |-> -200, saves |-> 20, shutouts |-> 300,
     otLosses |-> 100]

(* ------------------------------ helpers -------------------------------- *)
None == <<>>
Some(v) == <<v>>
\* Python's  x or 0  for an Optional[int]
OrZero(x) == IF x = None THEN 0 ELSE x[1]

EmptyMap == [x \in {} |-> 0]
\* dict assignment d[k] = v
Put(d, k, v) == [x \in DOMAIN d \cup {k} |-> IF x = k THEN v ELSE d[x]]

Range(s) == {s[i] : i \in DOMAIN s}

RECURSIVE SumOver(_, _)
\* sum(f[x] for x in S)
SumOver(S, f) ==
    IF S = {} THEN 0
    ELSE LET x == CHOOSE y \in S : TRUE IN f[x] + SumOver(S \ {x}, f)


(* ------------------- upstream payloads (src/src/api/models.py) --------- *)
\* PlayerStatsFromBoxscore: one entry of forwards/defense of a boxscore
SkaterBox(p, pos, g) ==
    [kind |-> "skater", playerId |-> p, name |-> ToString(p), position |-> pos,
     goals |-> g, assists |-> 0, sog |-> g, blockedShots |-> 0, hits |-> 0,
     saves |-> 0, goalsAgainst |-> 0, decision |-> "None"]

\* GoalieStatsFromBoxscore: one entry of goalies of a boxscore
GoalieBox(p, sv, ga, dec) ==
    [kind |-> "goalie", playerId |-> p, name |-> ToString(p), position |-> "G",
     goals |-> 0, assists |-> 0, sog |-> 0, blockedShots |-> 0, hits |-> 0,
     saves |-> sv, goalsAgainst |-> ga, decision |-> dec]

\* GameBoxscoreResponse; roster is the concatenation of the six player lists
\* of playerByGameStats, keyed here by playerId
GameBoxscoreResponse(g, roster) ==
    [id |-> g, homeTeam |-> "HOM", awayTeam |-> "AWY", roster |-> roster]

\* PlayerGameLogEntry
PlayerGameLogEntry(g, team, ppp) ==
    [gameId |-> g, teamAbbrev |-> team, powerPlayPoints |-> ppp,
     shorthandedPoints |-> 0]

\* FinalPlayerGameStats(playerId=..., gameId=..., teamAbbrev=..., ...) as built
\* in phase 2 from a log entry: the boxscore fields keep the class defaults
FinalPlayerGameStats(p, e) ==
    [playerId |-> p, gameId |-> e.gameId, teamAbbrev |-> e.teamAbbrev,
     powerPlayPoints |-> e.powerPlayPoints,
     shorthandedPoints |-> e.shorthandedPoints,
     name |-> "N/A", position |-> "N/A",
     goals |-> 0, assists |-> 0, sog |-> 0, blockedShots |-> 0, hits |-> 0,
     saves |-> None, goalsAgainst |-> None, decision |-> "None"]

(* ----------------------- src/src/api/helpers.py ------------------------ *)
merge_skater_stats(entry, stats) ==
    [entry EXCEPT !.name = stats.name, !.position = stats.position,
                  !.goals = stats.goals, !.assists = stats.assists,
                  !.sog = stats.sog, !.blockedShots = stats.blockedShots,
                  !.hits = stats.hits]

merge_goalie_stats(entry, stats) ==
    [entry EXCEPT !.name = stats.name, !.position = stats.position,
                  !.saves = Some(stats.saves),
                  !.goalsAgainst = Some(stats.goalsAgainst),
                  !.decision = stats.decision]

\* A skater formula that leaves the hits out
calculate_fantasy_points_skater_NoHits(stats) ==
    LET w == SKATER_FPTS_WEIGHTS IN
      stats.goals * w.goals
    + stats.assists * w.assists
    + stats.powerPlayPoints * w.ppPoints
    + stats.shorthandedPoints * w.shPoints
    + stats.sog * w.shots
    + stats.blockedShots * w.blockedShots

calculate_fantasy_points_skater(stats) ==
    LET w == SKATER_FPTS_WEIGHTS IN
      stats.goals * w.goals
    + stats.assists * w.assists
    + stats.powerPlayPoints * w.ppPoints
    + stats.shorthandedPoints * w.shPoints
    + stats.sog * w.shots
    + stats.blockedShots * w.blockedShots
    + stats.hits * w.hits

\* A goalie formula that counts a shutout whenever no goal was allowed
calculate_fantasy_points_goalie_AnyZero(stats) ==
    LET w == GOALIE_FPTS_WEIGHTS
        wins == IF stats.decision = WIN_DECISION THEN 1 ELSE 0
        ot_losses == IF stats.decision = OT_LOSS_DECISION THEN 1 ELSE 0
        shutouts == IF stats.goalsAgainst = Some(0) THEN 1 ELSE 0
    IN  wins * w.wins
      + OrZero(stats.goalsAgainst) * w.goalsAgainst
      + OrZero(stats.saves) * w.saves
      + shutouts * w.shutouts
      + ot_losses * w.otLosses

calculate_fantasy_points_goalie(stats) ==
    LET w == GOALIE_FPTS_WEIGHTS
        wins == IF stats.decision = WIN_DECISION THEN 1 ELSE 0
        ot_losses == IF stats.decision = OT_LOSS_DECISION THEN 1 ELSE 0
        shutouts == IF stats.goalsAgainst = Some(0) /\ stats.saves # None
                       /\ OrZero(stats.saves) > 0 THEN 1 ELSE 0
    IN  wins * w.wins
      + OrZero(stats.goalsAgainst) * w.goalsAgainst
      + OrZero(stats.saves) * w.saves
      + shutouts * w.shutouts
      + ot_losses * w.otLosses

\* An opponent lookup that always answers with the home team
get_opponent_abbrev_Home(boxscore, team_abbrev) == boxscore.homeTeam

get_opponent_abbrev(boxscore, team_abbrev) ==
    IF team_abbrev = boxscore.homeTeam THEN boxscore.awayTeam
    ELSE boxscore.homeTeam

(* ------------- row construction, _write_data_to_db step 1 -------------- *)
\* GoalieGameStats(...) of lines 346-374
GoalieGameStats(stats, boxscore) ==
    [table |-> "goalie", game_id |-> stats.gameId, player_id |-> stats.playerId,
     team_abbrev |-> stats.teamAbbrev,
     opponent_abbrev |-> get_opponent_abbrev(boxscore, stats.teamAbbrev),
     player_name |-> stats.name, position |-> "Goalie",
     goals |-> 0, assists |-> 0, pp_points |-> 0, sh_points |-> 0,
     shots |-> 0, blocked_shots |-> 0, hits |-> 0,
     saves |-> OrZero(stats.saves),
     goals_against |-> OrZero(stats.goalsAgainst),
     decision |-> stats.decision,
     wins |-> IF stats.decision = "W" THEN 1 ELSE 0,
     shutouts |-> IF stats.goalsAgainst = Some(0) /\ OrZero(stats.saves) > 0
                  THEN 1 ELSE 0,
     ot_losses |-> IF stats.decision = "O" THEN 1 ELSE 0,
     total_fpts |-> calculate_fantasy_points_goalie(stats)]

\* PlayerGameStats(...) of lines 386-409
PlayerGameStats(stats, boxscore) ==
    [table |-> "skater", game_id |-> stats.gameId, player_id |-> stats.playerId,
     team_abbrev |-> stats.teamAbbrev,
     opponent_abbrev |-> get_opponent_abbrev(boxscore, stats.teamAbbrev),
     player_name |-> stats.name, position |-> stats.position,
     goals |-> stats.goals, assists |-> stats.assists,
     pp_points |-> stats.powerPlayPoints,
     sh_points |-> stats.shorthandedPoints,
     shots |-> stats.sog, blocked_shots |-> stats.blockedShots,
     hits |-> stats.hits,
     saves |-> 0, goals_against |-> 0, decision |-> "None",
     wins |-> 0, shutouts |-> 0, ot_losses |-> 0,
     total_fpts |-> calculate_fantasy_points_skater(stats)]

\* the routing test of line 344
ToRow(stats, boxscore) ==
    IF stats.position \in GOALIE_POSITIONS THEN GoalieGameStats(stats, boxscore)
    ELSE PlayerGameStats(stats, boxscore)


(* ------------------------------- state --------------------------------- *)
VARIABLES
    \* persistent stores
    cacheFile,      \* the JSON file GAME_STATS_CACHE: str(game_id) -> entry
    skaterTbl,      \* table player_game_stats: a set of rows
    goalieTbl,      \* table goalie_game_stats: a set of rows
    proPlayers,     \* table pro_players: player_id -> row
    \* the PlayerStatsProcessor instance of the current run
    pc,             \* position inside process_games
    game_ids_to_process,
    use_cache,
    perform_incremental_update,
    game_cache_internal,
    boxscore_map,
    game_stats_cache_on_disk,
    game_ids_to_fetch_fresh,
    game_ids_from_cache,
    \* environment
    feed,           \* what the two upstream endpoints answer during this run
    runs,           \* process_games calls started so far
    damage,         \* external edits of the cache file so far
    \* history
    boxRequests,    \* game ids of the boxscore requests issued by this run
    logRequests,    \* player ids of the player-log requests issued by this run
    contrib,        \* <<game_id, player_id>> -> times its row was added to, and
                    \* committed into, the pro_players season totals
    incrRows,       \* rows handed to _update_pro_players_incrementally
    dbBefore,       \* the three tables when the current run started
    outcome,        \* how the last _write_data_to_db ended
    fault,          \* the database faults injected into the current run
    sameCall,       \* this call repeats the previous call, which committed
                    \* with no database fault: same ids, same flags,
                    \* use_cache = False
    sameData,       \* ... and the endpoints answered as they did then
    lastPersisted,  \* rows the last committed transaction wrote
    lastFetched,    \* games the last run fetched fresh (boxscore returned) and
                    \* committed with no database fault, and whose cache
                    \* entry nobody has touched since
    \* one call of a fetch helper, looked at on its own
    call,           \* the call in progress: function, upstream answers, HTTP
                    \* requests issued so far, how it ended
    \* environment, history
    gameStateAtFetch, \* game -> "LIVE" / "FINAL": whether the game was still
                    \* being played when its boxscore was last returned
    \* one record on its way through the row construction, on its own
    calc,           \* the record, the boxscore of its game, the row built
    \* scripts/seed_pro_players.py
    lastRebuild,    \* the last populate_pro_players(): how many in a row over
                    \* the same tables, the tables it left, ProPlayers before
    \* src/api/nhl_api_utils.py
    sched,          \* the schedule cache file and the get_schedule call in
                    \* progress
    \* src/database/utils.py
    merge,          \* one bulk_merge_data call: its input, the loop, its end
    \* tests/test_name_filter.py
    keyCall,        \* one generate_player_key call: arguments and value
    \* _fetch_fresh_game_data, request by request
    net             \* the tasks of the two gathers, the semaphore, what was
                    \* sent

procVars == <<pc, game_ids_to_process, use_cache, perform_incremental_update,
              game_cache_internal, boxscore_map, game_stats_cache_on_disk,
              game_ids_to_fetch_fresh, game_ids_from_cache>>
dbVars == <<skaterTbl, goalieTbl, proPlayers>>
histVars == <<boxRequests, logRequests, contrib, incrRows, dbBefore, outcome,
              fault, sameCall, sameData, lastPersisted, lastFetched>>
sideVars == <<lastRebuild, sched, merge, keyCall, net>>
unitVars == <<call, gameStateAtFetch, calc, sideVars>>
pipeVars == <<cacheFile, dbVars, procVars, feed, runs, damage, histVars>>
vars == <<cacheFile, dbVars, procVars, feed, runs, damage, histVars, unitVars>>

Keys == Games \X Players
NoFeed == [box |-> EmptyMap, log |-> EmptyMap]
Db == [skater |-> skaterTbl, goalie |-> goalieTbl, pro |-> proPlayers]
NoFault == [merge |-> {}, commit |-> FALSE]
\* constants.NHL_TEAMS, its first NumTeams entries
NHL_TEAMS == SubSeq(<<"ANA", "BOS", "BUF", "CGY">>, 1, NumTeams)
REGULAR_SEASON == 2
NoFile == [kind |-> "absent", data |-> EmptyMap]
NoSched ==
    [state |-> "idle", file |-> NoFile, force_refresh |-> FALSE,
     before |-> NoFile, answers |-> EmptyMap,
     requests |-> [t \in Range(NHL_TEAMS) |-> 0], results |-> EmptyMap,
     value |-> None]
NoNet ==
    [phase |-> "idle", fresh |-> <<>>, box |-> EmptyMap, log |-> EmptyMap,
     permits |-> 0, boxSent |-> EmptyMap, logSent |-> EmptyMap]
NoKeyCall == [state |-> "idle", name |-> <<>>, position |-> <<>>, value |-> <<>>]
NoMerge ==
    [state |-> "idle", data |-> <<>>, failing |-> {}, session |-> <<>>,
     merged_count |-> 0, failed_items |-> <<>>, value |-> None,
     error |-> None]
NoRebuild == [n |-> 0, db |-> None, before |-> None]
NoCalc == [state |-> "none", stats |-> None, boxscore |-> None, row |-> None]
NoCall == [fn |-> "none", script |-> <<>>, attempts |-> 0, state |-> "none",
           value |-> None, handled |-> "none"]

\* PlayerStatsProcessor.__init__ : the fields of a new instance
Init ==
    /\ cacheFile = EmptyMap
    /\ skaterTbl = {}
    /\ goalieTbl = {}
    /\ proPlayers = EmptyMap
    /\ pc = "idle"
    /\ game_ids_to_process = <<>>
    /\ use_cache = FALSE
    /\ perform_incremental_update = TRUE
    /\ game_cache_internal = [g \in Games |-> EmptyMap]
    /\ boxscore_map = EmptyMap
    /\ game_stats_cache_on_disk = EmptyMap
    /\ game_ids_to_fetch_fresh = <<>>
    /\ game_ids_from_cache = <<>>
    /\ feed = NoFeed
    /\ runs = 0
    /\ damage = 0
    /\ boxRequests = <<>>
    /\ logRequests = <<>>
    /\ contrib = [k \in Keys |-> 0]
    /\ incrRows = {}
    /\ dbBefore = [skater |-> {}, goalie |-> {}, pro |-> EmptyMap]
    /\ outcome = "none"
    /\ fault = NoFault
    /\ sameCall = FALSE
    /\ sameData = FALSE
    /\ lastPersisted = {}
    /\ lastFetched = {}
    /\ call = NoCall
    /\ gameStateAtFetch = EmptyMap
    /\ calc = NoCalc
    /\ lastRebuild = NoRebuild
    /\ sched = NoSched
    /\ merge = NoMerge
    /\ keyCall = NoKeyCall
    /\ net = NoNet

(* ----------------------------- input sets ------------------------------ *)
RECURSIVE SortedSeq(_)
\* the ids of a set as an ascending list
SortedSeq(S) ==
    IF S = {} THEN <<>>
    ELSE LET m == CHOOSE x \in S : \A y \in S : x <= y
         IN <<m>> \o SortedSeq(S \ {m})

\* the game id lists a caller passes: the schedule's ids, each at most once
IdLists == {SortedSeq(S) : S \in SUBSET Games \ {{}}}

(* ---- process_games entry: a fresh processor is built and called ------- *)
StartRun(ids, uc, incr) ==
    /\ pc = "idle"
    /\ runs < MaxRuns
    /\ game_ids_to_process' = ids
    /\ use_cache' = uc
    /\ perform_incremental_update' = incr
    /\ sameCall' = /\ outcome = "committed" /\ fault = NoFault
                    /\ ids = game_ids_to_process
                    /\ ~uc /\ ~use_cache
                    /\ incr = perform_incremental_update
    /\ game_cache_internal' = [g \in Games |-> EmptyMap]
    /\ boxscore_map' = EmptyMap
    /\ game_stats_cache_on_disk' = EmptyMap
    /\ game_ids_to_fetch_fresh' = <<>>
    /\ game_ids_from_cache' = <<>>
    /\ pc' = "partition"
    /\ runs' = runs + 1
    /\ boxRequests' = <<>>
    /\ logRequests' = <<>>
    /\ incrRows' = {}
    /\ dbBefore' = Db
    /\ outcome' = "none"
    /\ fault' = NoFault
    /\ sameData' = FALSE
    /\ UNCHANGED unitVars
    /\ UNCHANGED <<cacheFile, dbVars, feed, damage, contrib, lastPersisted,
                   lastFetched>>

\* any caller: PlayerStatsProcessor(use_cache, perform_incremental_update)
NewProcessor ==
    \E ids \in IdLists, uc \in BOOLEAN, incr \in BOOLEAN : StartRun(ids, uc, incr)

\* scripts/update_daily_stats.py: PlayerStatsProcessor(use_cache=True), the
\* incremental update left at its default True
NewDailyProcessor ==
    \E ids \in IdLists : StartRun(ids, TRUE, TRUE)

\* an incremental backfill: the cache is not consulted and no game that an
\* earlier run fetched is requested again
NewBackfillProcessor ==
    \E ids \in IdLists :
       /\ Range(ids) \cap DOMAIN cacheFile = {}
       /\ StartRun(ids, FALSE, TRUE)

(* ------------------- _load_and_partition_games ------------------------- *)
\* line 102: cached_game and cached_game.get("status") == "final"
\* A partition that never recognises a finished entry
IsFinalInCache_Never(disk, g) == g \in DOMAIN disk /\ disk[g].status = "FINAL"

IsFinalInCache(disk, g) == g \in DOMAIN disk /\ disk[g].status = "final"

\* lines 120-127: GameBoxscoreResponse(**cached_data["boxscore_raw"]) and then
\* FinalPlayerGameStats(**d) for each player, in the order of the stored dict
\* (ascending player id); the first failure leaves the try block
BoxscoreLoads(entry) == entry.boxOk
PlayersLoaded(entry) ==
    IF ~entry.boxOk THEN {}
    ELSE {p \in DOMAIN entry.players : \A b \in entry.badPlayers : p < b}
LoadRaises(entry) == ~entry.boxOk \/ entry.badPlayers # {}

\* lines 99-107: the two lists after the partition loop
PartitionFromCache(ids, uc, disk) ==
    LET hit(g) == IsFinalInCache(disk, g)
    IN IF uc THEN SelectSeq(ids, hit) ELSE <<>>

\* A fresh-fetch list that consults the cache whatever use_cache says
PartitionFetchFresh_AlwaysCache(ids, uc, disk) ==
    LET miss(g) == ~IsFinalInCache(disk, g)
    IN SelectSeq(ids, miss)

PartitionFetchFresh(ids, uc, disk) ==
    LET miss(g) == ~IsFinalInCache(disk, g)
    IN IF uc THEN SelectSeq(ids, miss) ELSE ids

\* An except branch that logs the entry and demotes nothing
CorruptedIds_None(from_cache, disk) == <<>>

\* lines 128-132: the ids appended to game_ids_to_fetch_fresh by the except
\* branch of the load loop
CorruptedIds(from_cache, disk) ==
    LET raises(g) == LoadRaises(disk[g])
    IN SelectSeq(from_cache, raises)

LoadAndPartition ==
    /\ pc = "partition"
    /\ LET disk == cacheFile
           from_cache == PartitionFromCache(game_ids_to_process, use_cache, disk)
           fresh0 == PartitionFetchFresh(game_ids_to_process, use_cache, disk)
           loadedBox == {g \in Range(from_cache) : BoxscoreLoads(disk[g])}
       IN  /\ game_stats_cache_on_disk' = disk
           /\ game_ids_from_cache' = from_cache
           /\ game_ids_to_fetch_fresh' = fresh0 \o CorruptedIds(from_cache, disk)
           /\ boxscore_map' = [g \in loadedBox |-> disk[g].boxscore_raw]
           /\ game_cache_internal' =
                [g \in Games |->
                   IF g \in Range(from_cache)
                   THEN [p \in PlayersLoaded(disk[g]) |-> disk[g].players[p]]
                   ELSE EmptyMap]
    /\ pc' = "fetch"
    /\ UNCHANGED unitVars
    /\ UNCHANGED <<cacheFile, dbVars, game_ids_to_process, use_cache,
                   perform_incremental_update, feed, runs, damage, histVars>>


(* ------------------------ the upstream endpoints ----------------------- *)
\* what a boxscore can say about one player of one game
Cells(p) == {SkaterBox(p, "C", 1), GoalieBox(p, 1, 0, "W")}

Rosters == UNION {[R -> UNION {Cells(p) : p \in Players}] : R \in SUBSET Players}

\* the boxscores the endpoint can return for game g: any set of players, each
\* in the forwards/defense lists or in the goalies list
Boxscores(g) ==
    {GameBoxscoreResponse(g, r) :
       r \in {x \in Rosters : \A p \in DOMAIN x : x[p].playerId = p}}

\* the season logs the endpoint can return: one entry per game played
GameLogs == {{PlayerGameLogEntry(g, "HOM", 1) : g \in S} : S \in SUBSET Games}

\* Answers of the two endpoints to the requests of one run.  A game or player
\* outside the DOMAIN is one whose fetch_game_boxscore / fetch_player_log
\* call returns None.  Only the games and players the run asks about appear.
Feeds(fresh) ==
    {f \in [box : UNION {[B -> UNION {Boxscores(g) : g \in Games}] :
                           B \in SUBSET Range(fresh)},
            log : UNION {[L -> GameLogs] : L \in SUBSET Players}] :
       /\ \A g \in DOMAIN f.box : f.box[g].id = g
       /\ \A p \in DOMAIN f.log :
            \E g \in DOMAIN f.box : p \in DOMAIN f.box[g].roster}

\* A game id of the season that no caller of this model requests
OtherGame == NumGames + 1

\* GameBoxscoreResponse.id is whatever the payload says
BoxscoresAnyId ==
    {[b EXCEPT !.id = i] : b \in Boxscores(1), i \in Games \cup {OtherGame}}

\* a season log lists every game the player played
GameLogsAnyId ==
    {{PlayerGameLogEntry(g, "HOM", 1) : g \in S} :
       S \in SUBSET (Games \cup {OtherGame})}

FeedsAnyId(fresh) ==
    {f \in [box : UNION {[B -> BoxscoresAnyId] : B \in SUBSET Range(fresh)},
            log : UNION {[L -> GameLogsAnyId] : L \in SUBSET Players}] :
       \A p \in DOMAIN f.log :
          \E g \in DOMAIN f.box : p \in DOMAIN f.box[g].roster}

(* ----------------------- _fetch_fresh_game_data ------------------------ *)
RECURSIVE Phase1Map(_, _, _)
\* lines 163-174: boxscore_map[result.id] = result for every result that is
\* neither an exception nor None, in request order
Phase1Map(bmap, fresh, f) ==
    IF fresh = <<>> THEN bmap
    ELSE LET g == Head(fresh)
             m == IF g \in DOMAIN f.box
                  THEN Put(bmap, f.box[g].id, f.box[g]) ELSE bmap
         IN Phase1Map(m, Tail(fresh), f)

\* lines 162, 176-187: the player ids of all the boxscores that came back
PlayerIdsToFetchLog(fresh, f) ==
    UNION {DOMAIN f.box[g].roster : g \in Range(fresh) \cap DOMAIN f.box}

\* A phase 2 that keeps a record for every entry of the season log
Phase2Cache_AllEntries(gci, fresh, f) ==
    LET pids == PlayerIdsToFetchLog(fresh, f)
        entry(p, g) == CHOOSE e \in f.log[p] : e.gameId = g
        has(p, g) == /\ p \in pids /\ p \in DOMAIN f.log
                     /\ \E e \in f.log[p] : e.gameId = g
    IN [g \in Games |->
          [p \in DOMAIN gci[g] \cup {q \in Players : has(q, g)} |->
             IF has(p, g) THEN FinalPlayerGameStats(p, entry(p, g))
             ELSE gci[g][p]]]

\* lines 206-231: a record for every log entry whose gameId is being fetched
Phase2Cache(gci, fresh, f) ==
    LET pids == PlayerIdsToFetchLog(fresh, f)
        entry(p, g) == CHOOSE e \in f.log[p] : e.gameId = g
        has(p, g) == /\ p \in pids /\ p \in DOMAIN f.log
                     /\ \E e \in f.log[p] : e.gameId = g
                     /\ g \in Range(fresh)
    IN [g \in Games |->
          [p \in DOMAIN gci[g] \cup {q \in Players : has(q, g)} |->
             IF has(p, g) THEN FinalPlayerGameStats(p, entry(p, g))
             ELSE gci[g][p]]]

\* lines 241-269: merge the boxscore of each game being fetched into the
\* records that exist for it
Phase3Cache(gci, bmap, fresh) ==
    [g \in Games |->
       IF g \in Range(fresh) /\ g \in DOMAIN bmap
       THEN [p \in DOMAIN gci[g] |->
               IF p \in DOMAIN bmap[g].roster
               THEN IF bmap[g].roster[p].kind = "skater"
                    THEN merge_skater_stats(gci[g][p], bmap[g].roster[p])
                    ELSE merge_goalie_stats(gci[g][p], bmap[g].roster[p])
               ELSE gci[g][p]]
       ELSE gci[g]]

\* _fetch_fresh_game_data against an upstream that answers with one of feeds
FetchFresh(feeds) ==
    /\ pc = "fetch"
    /\ IF game_ids_to_fetch_fresh = <<>>
       THEN /\ UNCHANGED <<boxscore_map, game_cache_internal, feed,
                           boxRequests, logRequests, sameData>>
       ELSE \E f \in feeds :
              LET fresh == game_ids_to_fetch_fresh
                  bmap == Phase1Map(boxscore_map, fresh, f)
                  gci2 == Phase2Cache(game_cache_internal, fresh, f)
              IN /\ feed' = f
                 /\ sameData' = (sameCall /\ f = feed)
                 /\ boxscore_map' = bmap
                 /\ game_cache_internal' = Phase3Cache(gci2, bmap, fresh)
                 /\ boxRequests' = fresh
                 /\ logRequests' = SortedSeq(PlayerIdsToFetchLog(fresh, f))
    /\ pc' = "cache"
    /\ UNCHANGED call
    /\ UNCHANGED <<cacheFile, dbVars, game_ids_to_process, use_cache,
                   perform_incremental_update, game_stats_cache_on_disk,
                   game_ids_to_fetch_fresh, game_ids_from_cache, runs, damage,
                   contrib, incrRows, dbBefore, outcome, fault, sameCall,
                   lastPersisted, lastFetched>>

FetchFreshGameData ==
    /\ FetchFresh(Feeds(game_ids_to_fetch_fresh))
    /\ UNCHANGED <<gameStateAtFetch, calc, sideVars>>

\* the same while the upstream also knows which of the games it answers for
\* are still being played: the "gameState" of the boxscore payload, a field
\* GameBoxscoreResponse does not declare and therefore drops
FetchFreshGameDataLive ==
    /\ FetchFresh(Feeds(game_ids_to_fetch_fresh))
    /\ UNCHANGED <<calc, sideVars>>
    /\ LET got == Range(game_ids_to_fetch_fresh) \cap DOMAIN feed'.box
       IN \E live \in SUBSET got :
            gameStateAtFetch' =
               [g \in DOMAIN gameStateAtFetch \cup got |->
                  IF g \in live THEN "LIVE"
                  ELSE IF g \in got THEN "FINAL" ELSE gameStateAtFetch[g]]

\* the same against an upstream whose boxscores may carry another game's id
\* and whose season logs reach beyond the games of this model
FetchFreshGameDataAnyId ==
    /\ FetchFresh(FeedsAnyId(game_ids_to_fetch_fresh))
    /\ UNCHANGED <<gameStateAtFetch, calc, sideVars>>

(* ------------------------ _update_on_disk_cache ------------------------ *)
\* lines 293-304: the entry written for a fetched game
CacheEntry(box, players) ==
    [status |-> "final", boxOk |-> TRUE, boxscore_raw |-> box,
     players |-> players, badPlayers |-> {}]

\* lines 285-305: one entry per game of the fresh list that has a boxscore
UpdatedDisk(disk, fresh, bmap, gci) ==
    LET upd == Range(fresh) \cap DOMAIN bmap
    IN [g \in DOMAIN disk \cup upd |->
          IF g \in upd THEN CacheEntry(bmap[g], gci[g]) ELSE disk[g]]

UpdateOnDiskCache ==
    /\ pc = "cache"
    /\ LET disk == UpdatedDisk(game_stats_cache_on_disk, game_ids_to_fetch_fresh,
                               boxscore_map, game_cache_internal)
           updated_count ==
               Cardinality({i \in DOMAIN game_ids_to_fetch_fresh :
                              game_ids_to_fetch_fresh[i] \in DOMAIN boxscore_map})
       IN /\ game_stats_cache_on_disk' = disk
          \* lines 307-310: save_data_to_cache only when something was updated
          /\ cacheFile' = IF updated_count > 0 THEN disk ELSE cacheFile
    /\ pc' = "write"
    /\ UNCHANGED unitVars
    /\ UNCHANGED <<dbVars, game_ids_to_process, use_cache,
                   perform_incremental_update, game_cache_internal,
                   boxscore_map, game_ids_to_fetch_fresh, game_ids_from_cache,
                   feed, runs, damage, histVars>>


(* -------------- src/src/database/utils.py : bulk_merge_data ------------ *)
Key(r) == <<r.game_id, r.player_id>>

\* session.merge(item) for every item: insert, or replace the row that has
\* the item's primary key (game_id, player_id).  An item whose merge raises
\* is logged and skipped (lines 66-72); nothing is re-raised (lines 74-79).
bulk_merge_data(tbl, data, failing) ==
    LET merged == {r \in data : Key(r) \notin failing}
    IN {r \in tbl : \A n \in merged : Key(n) # Key(r)} \cup merged

(* ---------------- _update_pro_players_incrementally -------------------- *)
\* ProPlayers(player_id=..., is_goalie=...) with the column defaults
ProPlayers(pid, is_goalie) ==
    [player_id |-> pid, is_goalie |-> is_goalie,
     season_games_played |-> 0, season_total_fpts |-> 0,
     season_goals |-> 0, season_assists |-> 0, season_pp_points |-> 0,
     season_sh_points |-> 0, season_shots |-> 0, season_blocked_shots |-> 0,
     season_hits |-> 0, season_wins |-> 0, season_shutouts |-> 0,
     season_ot_losses |-> 0, season_saves |-> 0, season_goals_against |-> 0]

\* The lookup the where clause was written for (.in_): the rows of the players
\* of this run that the table already holds
ExistingPlayersMap_In(pro, player_ids) ==
    [p \in DOMAIN pro \cap player_ids |-> pro[p]]

\* lines 473-476.  The where clause is the Python expression
\*     ProPlayers.player_id in (player_ids)
\* i.e. the membership test of a column object in a set of ints, which Python
\* evaluates to False before SQLAlchemy sees it (contrast .in_() in
\* scripts/run_predictions.py:240).  The statement is SELECT ... WHERE false
\* and returns no row, whatever the table holds.
ExistingPlayersMap(pro, player_ids) ==
    [p \in {q \in DOMAIN pro : FALSE} |-> pro[p]]

\* lines 507-517: one skater row added to a player's season totals
AddSkater(player, stat) ==
    [player EXCEPT
       !.season_games_played = @ + 1,
       !.season_total_fpts = @ + stat.total_fpts,
       !.season_goals = @ + stat.goals,
       !.season_assists = @ + stat.assists,
       !.season_pp_points = @ + stat.pp_points,
       !.season_sh_points = @ + stat.sh_points,
       !.season_shots = @ + stat.shots,
       !.season_blocked_shots = @ + stat.blocked_shots,
       !.season_hits = @ + stat.hits]

\* lines 539-550: one goalie row added to a player's season totals
AddGoalie(player, stat) ==
    [player EXCEPT
       !.is_goalie = TRUE,
       !.season_games_played = @ + 1,
       !.season_total_fpts = @ + stat.total_fpts,
       !.season_wins = @ + stat.wins,
       !.season_shutouts = @ + stat.shutouts,
       !.season_ot_losses = @ + stat.ot_losses,
       !.season_saves = @ + stat.saves,
       !.season_goals_against = @ + stat.goals_against]

RECURSIVE AddAll(_, _)
\* the loops of lines 481-518 and 521-551 restricted to one player
AddAll(player, stats) ==
    IF stats = {} THEN player
    ELSE LET st == CHOOSE x \in stats : TRUE
             nxt == IF st.table = "skater" THEN AddSkater(player, st)
                    ELSE AddGoalie(player, st)
         IN AddAll(nxt, stats \ {st})

\* The session after the two loops: players[p] is the object of player p
\* (read from the table, or created and session.add-ed when the query
\* returned none: p is then in added)
UpdateProPlayersIncrementally(pro, new_skater_stats, new_goalie_stats) ==
    LET stats == new_skater_stats \cup new_goalie_stats
        player_ids == {st.player_id : st \in stats}
        existing == ExistingPlayersMap(pro, player_ids)
        first(p) == IF \E st \in new_skater_stats : st.player_id = p
                    THEN ProPlayers(p, FALSE) ELSE ProPlayers(p, TRUE)
        start(p) == IF p \in DOMAIN existing THEN existing[p] ELSE first(p)
    IN [players |-> [p \in player_ids |->
                       AddAll(start(p), {st \in stats : st.player_id = p})],
        added |-> player_ids \ DOMAIN existing]

(* -------------------------- _write_data_to_db -------------------------- *)
\* A persist step that builds rows for the freshly fetched games only
RowsToMerge_FreshOnly(gci, bmap) ==
    {ToRow(gci[g][p], bmap[g]) :
       <<g, p>> \in {k \in Keys : /\ k[1] \in DOMAIN bmap
                                 /\ k[2] \in DOMAIN gci[k[1]]
                                 /\ k[1] \in Range(game_ids_to_fetch_fresh)}}

\* lines 331-414: one row per record of every game that has a boxscore
RowsToMerge(gci, bmap) ==
    {ToRow(gci[g][p], bmap[g]) :
       <<g, p>> \in {k \in Keys : k[1] \in DOMAIN bmap /\ k[2] \in DOMAIN gci[k[1]]}}

\* The aggregate update handed every record of the run, cache hits included
RowsForIncrementalUpdate_All(rows, fresh) == rows

\* lines 378, 413: the rows also handed to the incremental update
RowsForIncrementalUpdate(rows, fresh) ==
    {r \in rows : r.game_id \in Range(fresh)}

\* the faults a database session can show during one run: the merge of at
\* most one item raises, and the commit itself may fail
Faults(rows) ==
    [merge : {{}} \cup {{Key(r)} : r \in rows}, commit : BOOLEAN]

\* _write_data_to_db with the database faults ft
Write(ft) ==
    /\ pc = "write"
    /\ LET rows == RowsToMerge(game_cache_internal, boxscore_map)
           skaters == {r \in rows : r.table = "skater"}
           goalies == {r \in rows : r.table = "goalie"}
           inc == RowsForIncrementalUpdate(rows, game_ids_to_fetch_fresh)
       IN   LET sk == bulk_merge_data(skaterTbl, skaters, ft.merge)
                gl == bulk_merge_data(goalieTbl, goalies, ft.merge)
                upd == IF perform_incremental_update
                       THEN UpdateProPlayersIncrementally(
                              proPlayers,
                              {r \in inc : r.table = "skater"},
                              {r \in inc : r.table = "goalie"})
                       ELSE [players |-> EmptyMap, added |-> {}]
                \* INSERT of a pro_players row whose primary key exists
                integrity == upd.added \cap DOMAIN proPlayers # {}
                raised == ft.commit \/ integrity
            IN /\ fault' = ft
               /\ incrRows' = IF perform_incremental_update THEN inc ELSE {}
               /\ IF raised
                  THEN \* lines 448-451: session.rollback(); raise
                       /\ outcome' = "raised"
                       /\ lastFetched' = {}
                       /\ UNCHANGED <<dbVars, contrib, lastPersisted>>
                  ELSE \* line 444: session.commit()
                       /\ outcome' = "committed"
                       /\ lastPersisted' = {r \in rows : Key(r) \notin ft.merge}
                       /\ lastFetched' =
                            IF ft = NoFault
                            THEN Range(game_ids_to_fetch_fresh) \cap DOMAIN feed.box
                            ELSE {}
                       /\ skaterTbl' = sk
                       /\ goalieTbl' = gl
                       /\ proPlayers' =
                            [p \in DOMAIN proPlayers \cup DOMAIN upd.players |->
                               IF p \in DOMAIN upd.players THEN upd.players[p]
                               ELSE proPlayers[p]]
                       /\ contrib' =
                            [k \in Keys |->
                               IF perform_incremental_update
                                  /\ \E r \in inc : Key(r) = k
                               THEN contrib[k] + 1 ELSE contrib[k]]
    /\ pc' = "idle"
    /\ UNCHANGED unitVars
    /\ UNCHANGED <<cacheFile, game_ids_to_process, use_cache,
                   perform_incremental_update, game_cache_internal,
                   boxscore_map, game_stats_cache_on_disk,
                   game_ids_to_fetch_fresh, game_ids_from_cache, feed, runs,
                   damage, boxRequests, logRequests, dbBefore, sameCall,
                   sameData>>

WriteDataToDb ==
    \E ft \in Faults(RowsToMerge(game_cache_internal, boxscore_map)) : Write(ft)

\* _write_data_to_db on a database that shows no fault of its own
WriteDataToDbHealthy == Write(NoFault)

(* ------- scripts/seed_pro_players.py : the full rebuild ---------------- *)
\* calculate_season_totals(session, player_id, is_goalie): the count and the
\* sums over the player's rows of one table (every row carries SEASON_ID)
calculate_season_totals(sk, gl, player_id, is_goalie) ==
    IF is_goalie
    THEN LET games == {r \in gl : r.player_id = player_id}
             f(c) == [r \in games |-> r[c]]
         IN [goalie |-> TRUE,
             season_games_played |-> Cardinality(games),
             season_total_fpts |-> SumOver(games, f("total_fpts")),
             season_wins |-> SumOver(games, f("wins")),
             season_shutouts |-> SumOver(games, f("shutouts")),
             season_ot_losses |-> SumOver(games, f("ot_losses")),
             season_saves |-> SumOver(games, f("saves")),
             season_goals_against |-> SumOver(games, f("goals_against"))]
    ELSE LET games == {r \in sk : r.player_id = player_id}
             f(c) == [r \in games |-> r[c]]
         IN [goalie |-> FALSE,
             season_games_played |-> Cardinality(games),
             season_total_fpts |-> SumOver(games, f("total_fpts")),
             season_goals |-> SumOver(games, f("goals")),
             season_assists |-> SumOver(games, f("assists")),
             season_pp_points |-> SumOver(games, f("pp_points")),
             season_sh_points |-> SumOver(games, f("sh_points")),
             season_shots |-> SumOver(games, f("shots")),
             season_blocked_shots |-> SumOver(games, f("blocked_shots")),
             season_hits |-> SumOver(games, f("hits"))]

\* lines 179-202: setattr(existing_player, key, value) for every key of the
\* totals, or ProPlayers(player_id=..., **season_totals)
WithSeasonTotals(row, t) ==
    LET common == [row EXCEPT !.season_games_played = t.season_games_played,
                              !.season_total_fpts = t.season_total_fpts]
    IN IF t.goalie
       THEN [common EXCEPT !.season_wins = t.season_wins,
                           !.season_shutouts = t.season_shutouts,
                           !.season_ot_losses = t.season_ot_losses,
                           !.season_saves = t.season_saves,
                           !.season_goals_against = t.season_goals_against]
       ELSE [common EXCEPT !.season_goals = t.season_goals,
                           !.season_assists = t.season_assists,
                           !.season_pp_points = t.season_pp_points,
                           !.season_sh_points = t.season_sh_points,
                           !.season_shots = t.season_shots,
                           !.season_blocked_shots = t.season_blocked_shots,
                           !.season_hits = t.season_hits]

\* populate_pro_players(): every player that has a game row, goalie rows
\* taking precedence (line 159); the table after the final commit
populate_pro_players(pro, sk, gl) ==
    LET skater_info == {r.player_id : r \in sk}
        goalie_info == {r.player_id : r \in gl}
        all_players == skater_info \cup goalie_info
        totals(p) == calculate_season_totals(sk, gl, p, p \in goalie_info)
    IN [p \in DOMAIN pro \cup all_players |->
          IF p \in all_players
          THEN WithSeasonTotals(
                 IF p \in DOMAIN pro THEN pro[p] ELSE ProPlayers(p, FALSE),
                 totals(p))
          ELSE pro[p]]

(* --------------- external edits of the cache file ---------------------- *)
\* Between runs the JSON file can be damaged or edited by hand: the stored
\* boxscore or one stored player record no longer validates, or the status
\* is not "final".
CacheFileDamage ==
    /\ pc = "idle"
    /\ damage < MaxDamage
    /\ runs < MaxRuns
    /\ \E g \in DOMAIN cacheFile :
         /\ \/ cacheFile' = [cacheFile EXCEPT ![g].boxOk = FALSE]
            \/ \E p \in DOMAIN cacheFile[g].players :
                 cacheFile' = [cacheFile EXCEPT ![g].badPlayers = @ \cup {p}]
            \/ cacheFile' = [cacheFile EXCEPT ![g].status = "live"]
         /\ lastFetched' = lastFetched \ {g}
    /\ damage' = damage + 1
    /\ UNCHANGED unitVars
    /\ UNCHANGED <<dbVars, procVars, feed, runs, boxRequests, logRequests,
                   contrib, incrRows, dbBefore, outcome, fault, sameCall,
                   sameData, lastPersisted>>

(* ------ src/src/api/helpers.py : fetch_game_boxscore, fetch_player_log - *)
\* stop_after_attempt(3) of the @retry decorators
STOP_AFTER_ATTEMPT == 3

\* what the endpoint does with one HTTP request
Transient == {"timeout", "connect_error", "status_5xx"}
Responses == Transient \cup {"status_4xx", "empty", "invalid", "ok"}
Scripts == [1..STOP_AFTER_ATTEMPT -> Responses]

\* the httpx / pydantic exception classes involved
RequestError == {"TimeoutException", "ConnectError"}
HTTPError == RequestError \cup {"HTTPStatusError"}
AnyException == HTTPError \cup {"ValidationError"}

\* lines 41-46, 69-75: the exception the statements of the try block raise
\* for a response; client.get raises on a transport failure,
\* raise_for_status on a 4xx/5xx status, the model constructor on a payload
\* that does not validate
RaisedInTry(resp) ==
    CASE resp = "timeout" -> "TimeoutException"
      [] resp = "connect_error" -> "ConnectError"
      [] resp \in {"status_5xx", "status_4xx"} -> "HTTPStatusError"
      [] resp = "invalid" -> "ValidationError"
      [] OTHER -> "none"

\* A body whose handlers catch transport errors only
FetchBody_RequestErrorOnly(resp) ==
    LET e == RaisedInTry(resp)
    IN IF e = "none"
       THEN [raised |-> "none",
             value |-> IF resp = "empty" THEN None ELSE Some("payload")]
       ELSE IF e \in RequestError
       THEN [raised |-> "none", value |-> None]
       ELSE [raised |-> e, value |-> None]

\* lines 39-54, 67-84: one execution of the function body.  "if not data:
\* return None"; "except httpx.RequestError: return None"; "except Exception:
\* return None".
FetchBody(resp) ==
    LET e == RaisedInTry(resp)
    IN IF e = "none"
       THEN [raised |-> "none",
             value |-> IF resp = "empty" THEN None ELSE Some("payload")]
       ELSE IF e \in RequestError
       THEN [raised |-> "none", value |-> None]
       ELSE IF e \in AnyException
       THEN [raised |-> "none", value |-> None]
       ELSE [raised |-> e, value |-> None]

\* lines 30-34, 57-61: the decision of the @retry wrapper after an attempt:
\* retry_if_exception_type(httpx.HTTPError), stop_after_attempt(3)
RetryDecision(o, attempts) ==
    IF o.raised \in HTTPError
    THEN IF attempts < STOP_AFTER_ATTEMPT THEN "retry" ELSE "raised"
    ELSE IF o.raised # "none" THEN "raised" ELSE "returned"

\* the orchestrator awaits fetch_game_boxscore(...) / fetch_player_log(...)
CallFetch ==
    /\ pc = "idle" /\ runs = 0
    /\ call.state = "none"
    /\ \E fn \in {"fetch_game_boxscore", "fetch_player_log"}, sc \in Scripts :
         call' = [fn |-> fn, script |-> sc, attempts |-> 0,
                  state |-> "calling", value |-> None, handled |-> "none"]
    /\ UNCHANGED <<cacheFile, dbVars, procVars, feed, runs, damage, histVars,
                   gameStateAtFetch, calc, sideVars>>

\* one HTTP request and what the wrapper makes of the body's outcome
Attempt ==
    /\ call.state = "calling"
    /\ LET n == call.attempts + 1
           o == FetchBody(call.script[n])
           d == RetryDecision(o, n)
       IN call' = [call EXCEPT !.attempts = n,
                               !.state = IF d = "retry" THEN "calling" ELSE d,
                               !.value = o.value]
    /\ UNCHANGED <<cacheFile, dbVars, procVars, feed, runs, damage, histVars,
                   gameStateAtFetch, calc, sideVars>>

\* player_stats_fetcher.py lines 163-171, 206-211: what the loop over the
\* gathered results (return_exceptions=True) does with this result
Collect ==
    /\ call.state \in {"returned", "raised"}
    /\ call.handled = "none"
    /\ call' = [call EXCEPT !.handled =
                  IF call.state = "raised" \/ call.value = None
                  THEN "skipped" ELSE "used"]
    /\ UNCHANGED <<cacheFile, dbVars, procVars, feed, runs, damage, histVars,
                   gameStateAtFetch, calc, sideVars>>

\* the caller goes on to its next call
NextCall ==
    /\ call.handled # "none"
    /\ call' = NoCall
    /\ UNCHANGED <<cacheFile, dbVars, procVars, feed, runs, damage, histVars,
                   gameStateAtFetch, calc, sideVars>>

NextFetch ==
    \/ CallFetch
    \/ Attempt
    \/ Collect
    \/ NextCall

SpecFetch == Init /\ [][NextFetch]_vars

(* ------ _write_data_to_db step 1 for one record, on its own ------------ *)
\* the statistics one record can carry.  Skater counts come from the boxscore
\* and the log; the goalie fields of FinalPlayerGameStats are Optional
SkaterInputs ==
    [goals : {0, 2}, assists : {0, 1}, powerPlayPoints : {0, 1},
     shorthandedPoints : {0, 1}, sog : {0, 4}, blockedShots : {0, 2},
     hits : {0, 3}]
GoalieInputs ==
    [saves : {None, Some(0), Some(1), Some(28)},
     goalsAgainst : {None, Some(0), Some(2)},
     decision : {"W", "L", "O", "None"}]
TeamInputs == {"HOM", "AWY", "OTH"}
BoxscoreInputs ==
    {[GameBoxscoreResponse(1, EmptyMap) EXCEPT !.homeTeam = h, !.awayTeam = a] :
       <<h, a>> \in {<<"HOM", "AWY">>, <<"AWY", "HOM">>}}

\* a merged skater record
SkaterRecord(team, i) ==
    [FinalPlayerGameStats(1, PlayerGameLogEntry(1, team, i.powerPlayPoints))
       EXCEPT !.shorthandedPoints = i.shorthandedPoints,
              !.name = "1", !.position = "C",
              !.goals = i.goals, !.assists = i.assists, !.sog = i.sog,
              !.blockedShots = i.blockedShots, !.hits = i.hits]

\* a goalie record, merged or read back from a cache entry
GoalieRecord(team, i) ==
    [FinalPlayerGameStats(1, PlayerGameLogEntry(1, team, 0))
       EXCEPT !.name = "1", !.position = "G",
              !.saves = i.saves, !.goalsAgainst = i.goalsAgainst,
              !.decision = i.decision]

\* line 339: the loop reaches a record of a game that has a boxscore
TakeRecord ==
    /\ pc = "idle" /\ runs = 0
    /\ calc.state = "none"
    /\ \E team \in TeamInputs, b \in BoxscoreInputs :
         \/ \E i \in SkaterInputs :
              calc' = [state |-> "record", stats |-> SkaterRecord(team, i),
                       boxscore |-> b, row |-> None]
         \/ \E i \in GoalieInputs :
              calc' = [state |-> "record", stats |-> GoalieRecord(team, i),
                       boxscore |-> b, row |-> None]
    /\ UNCHANGED <<cacheFile, dbVars, procVars, feed, runs, damage, histVars,
                   call, gameStateAtFetch, sideVars>>

\* lines 340-414: the row built for it
BuildRow ==
    /\ calc.state = "record"
    /\ calc' = [calc EXCEPT !.state = "row",
                            !.row = ToRow(calc.stats, calc.boxscore)]
    /\ UNCHANGED <<cacheFile, dbVars, procVars, feed, runs, damage, histVars,
                   call, gameStateAtFetch, sideVars>>

\* the loop goes on to the next record
NextRecord ==
    /\ calc.state = "row"
    /\ calc' = NoCalc
    /\ UNCHANGED <<cacheFile, dbVars, procVars, feed, runs, damage, histVars,
                   call, gameStateAtFetch, sideVars>>

(* ------------- _fetch_fresh_game_data, request by request ------------- *)
\* A task of a gather is "waiting" (not yet past  async with semaphore),
\* "inflight" (holds the semaphore, request sent) or done with a result.
Task(st, res) == [state |-> st, result |-> res]
InFlight(tasks) == {k \in DOMAIN tasks : tasks[k].state = "inflight"}
Done(tasks) == {k \in DOMAIN tasks : tasks[k].state = "done"}

\* what a boxscore request can resolve to: None, or the player ids of the
\* six lists of the payload
BoxResults == {None} \cup {Some(r) : r \in SUBSET (1..MaxRoster)}
LogResults == {None, Some("log")}

\* A gather that hands over as soon as one task is done
Gathered_First(tasks) == Done(tasks) # {}

\* await asyncio.gather(*tasks): every task is done
Gathered(tasks) == Done(tasks) = DOMAIN tasks

\* A semaphore that lets every task through
Acquirable_Always(permits) == TRUE

\* async with semaphore: the task passes while the counter is positive
Acquirable(permits) == permits > 0

\* lines 162-187: the player ids of the boxscores that came back
PlayerIdsOf(box) ==
    UNION {box[g].result[1] : g \in {h \in Done(box) : box[h].result # None}}

\* lines 143-158: the semaphore and the boxscore tasks are created
StartFetch ==
    /\ pc = "idle" /\ runs = 0
    /\ net.phase = "idle"
    /\ \E n \in 1..MaxFresh :
         net' = [NoNet EXCEPT
                   !.phase = "boxscores",
                   !.fresh = [i \in 1..n |-> i],
                   !.permits = CONCURRENCY_LIMIT,
                   !.box = [g \in 1..n |-> Task("waiting", None)],
                   !.boxSent = [g \in 1..n |-> 0]]
    /\ UNCHANGED <<pipeVars, call, gameStateAtFetch, calc, lastRebuild, sched,
                   merge, keyCall>>

\* fetch_game_boxscore, lines 68-69: semaphore acquired, request sent
SendBoxscore ==
    /\ net.phase = "boxscores"
    /\ Acquirable(net.permits)
    /\ \E g \in DOMAIN net.box :
         /\ net.box[g].state = "waiting"
         /\ net' = [net EXCEPT !.box[g].state = "inflight",
                               !.permits = @ - 1,
                               !.boxSent[g] = @ + 1]
    /\ UNCHANGED <<pipeVars, call, gameStateAtFetch, calc, lastRebuild, sched,
                   merge, keyCall>>

\* fetch_game_boxscore, lines 70-84: the request resolves, the semaphore is
\* released
ResolveBoxscore ==
    /\ net.phase = "boxscores"
    /\ \E g \in InFlight(net.box), res \in BoxResults :
         net' = [net EXCEPT !.box[g] = Task("done", res),
                            !.permits = @ + 1]
    /\ UNCHANGED <<pipeVars, call, gameStateAtFetch, calc, lastRebuild, sched,
                   merge, keyCall>>

\* lines 159-204: the first gather returns, the player ids are collected and
\* the log tasks are created
StartLogs ==
    /\ net.phase = "boxscores"
    /\ Gathered(net.box)
    /\ LET player_ids_to_fetch_log == PlayerIdsOf(net.box)
       IN net' = [net EXCEPT
                    !.phase = "logs",
                    !.log = [p \in player_ids_to_fetch_log |-> Task("waiting", None)],
                    !.logSent = [p \in player_ids_to_fetch_log |-> 0]]
    /\ UNCHANGED <<pipeVars, call, gameStateAtFetch, calc, lastRebuild, sched,
                   merge, keyCall>>

\* fetch_player_log, lines 40-41
SendLog ==
    /\ net.phase = "logs"
    /\ Acquirable(net.permits)
    /\ \E p \in DOMAIN net.log :
         /\ net.log[p].state = "waiting"
         /\ net' = [net EXCEPT !.log[p].state = "inflight",
                               !.permits = @ - 1,
                               !.logSent[p] = @ + 1]
    /\ UNCHANGED <<pipeVars, call, gameStateAtFetch, calc, lastRebuild, sched,
                   merge, keyCall>>

\* fetch_player_log, lines 42-54
ResolveLog ==
    /\ net.phase = "logs"
    /\ \E p \in InFlight(net.log), res \in LogResults :
         net' = [net EXCEPT !.log[p] = Task("done", res),
                            !.permits = @ + 1]
    /\ UNCHANGED <<pipeVars, call, gameStateAtFetch, calc, lastRebuild, sched,
                   merge, keyCall>>

\* lines 205-207: the second gather returns
EndFetch ==
    /\ net.phase = "logs"
    /\ Gathered(net.log)
    /\ net' = [net EXCEPT !.phase = "done"]
    /\ UNCHANGED <<pipeVars, call, gameStateAtFetch, calc, lastRebuild, sched,
                   merge, keyCall>>

\* the next run
NextFetchPhase ==
    /\ net.phase = "done"
    /\ net' = NoNet
    /\ UNCHANGED <<pipeVars, call, gameStateAtFetch, calc, lastRebuild, sched,
                   merge, keyCall>>

NextGather ==
    \/ StartFetch
    \/ SendBoxscore
    \/ ResolveBoxscore
    \/ StartLogs
    \/ SendLog
    \/ ResolveLog
    \/ EndFetch
    \/ NextFetchPhase

SpecGather == Init /\ [][NextGather]_vars

(* ------------------------- generate_player_key ------------------------- *)
\* Strings are sequences of characters.  The characters a name is made of
\* here: an unaccented lower-case letter, an upper-case letter, an accented
\* letter (U+00E9, written "e_acute"), and the three separators the cleaning
\* looks at
NameChars == {"a", "B", "e_acute", ".", "-", " "}
COMBINING_ACUTE == "combining_acute"

\* str.lower and str.upper, character by character
Cased == <<<<"a", "A">>, <<"b", "B">>, <<"c", "C">>, <<"e", "E">>, <<"g", "G">>,
           <<"e_acute", "E_acute">>>>
LowerChar(c) ==
    IF \E i \in DOMAIN Cased : Cased[i][2] = c
    THEN Cased[CHOOSE i \in DOMAIN Cased : Cased[i][2] = c][1] ELSE c
UpperChar(c) ==
    IF \E i \in DOMAIN Cased : Cased[i][1] = c
    THEN Cased[CHOOSE i \in DOMAIN Cased : Cased[i][1] = c][2] ELSE c
Lower(s) == [i \in DOMAIN s |-> LowerChar(s[i])]

\* the class [a-z] of the two regular expressions
IsAZ(c) == c \in {"a", "b", "c", "e", "g"}

RECURSIVE LStrip(_)
LStrip(s) == IF s # <<>> /\ Head(s) = " " THEN LStrip(Tail(s)) ELSE s
RECURSIVE RStrip(_)
RStrip(s) == IF s # <<>> /\ s[Len(s)] = " " THEN RStrip(SubSeq(s, 1, Len(s) - 1)) ELSE s
\* str.strip
Strip(s) == RStrip(LStrip(s))

\* str.replace(old, new) for a one-character old
Replace(s, old, new) ==
    LET F[i \in 0..Len(s)] ==
          IF i = 0 THEN <<>>
          ELSE F[i - 1] \o (IF s[i] = old THEN new ELSE <<s[i]>>)
    IN F[Len(s)]

RECURSIVE SplitInitials(_)
\* line 18: re.sub(r"([a-z])\.([a-z])", r"\1. \2", name), the matches taken
\* from left to right without overlap
SplitInitials(s) ==
    IF s = <<>> THEN <<>>
    ELSE IF Len(s) >= 3 /\ IsAZ(s[1]) /\ s[2] = "." /\ IsAZ(s[3])
         THEN <<s[1], ".", " ", s[3]>> \o SplitInitials(SubSeq(s, 4, Len(s)))
         ELSE <<s[1]>> \o SplitInitials(Tail(s))

RECURSIVE CollapseSpaces(_)
\* line 20: re.sub(r"\s+", " ", name)
CollapseSpaces(s) ==
    IF s = <<>> THEN <<>>
    ELSE IF Len(s) >= 2 /\ s[1] = " " /\ s[2] = " " THEN CollapseSpaces(Tail(s))
         ELSE <<s[1]>> \o CollapseSpaces(Tail(s))

\* lines 8-10: NFKD decomposition, then the combining marks are dropped
Nfkd(s) ==
    LET F[i \in 0..Len(s)] ==
          IF i = 0 THEN <<>>
          ELSE F[i - 1] \o (IF s[i] = "e_acute" THEN <<"e", COMBINING_ACUTE>>
                            ELSE IF s[i] = "E_acute" THEN <<"E", COMBINING_ACUTE>>
                            ELSE <<s[i]>>)
    IN F[Len(s)]
strip_accents(s) == Replace(Nfkd(s), COMBINING_ACUTE, <<>>)

\* lines 13-21
clean_name_for_split(name) ==
    IF name = <<>> THEN <<>>
    ELSE LET n1 == Lower(Strip(name))
             n2 == Replace(n1, "-", <<" ">>)
             n3 == SplitInitials(n2)
             n4 == Replace(n3, ".", <<>>)
         IN Strip(CollapseSpaces(n4))

RECURSIVE Split(_)
\* str.split(): the maximal runs of non-blank characters
Split(s) ==
    LET t == LStrip(s)
    IN IF t = <<>> THEN <<>>
       ELSE LET n == CHOOSE k \in 1..Len(t) :
                       /\ \A j \in 1..k : t[j] # " "
                       /\ (k = Len(t) \/ t[k + 1] = " ")
            IN <<SubSeq(t, 1, n)>> \o Split(SubSeq(t, n + 1, Len(t)))

\* A key built from the whole first name instead of its initial
build_name_forms_FirstName(name) ==
    LET cleaned == clean_name_for_split(name)
        parts == Split(cleaned)
    IN IF cleaned = <<>> THEN <<>>
       ELSE IF Len(parts) < 2 THEN strip_accents(cleaned)
       ELSE strip_accents(parts[1]) \o strip_accents(parts[Len(parts)])

\* lines 24-48
build_name_forms(name) ==
    LET cleaned == clean_name_for_split(name)
        parts == Split(cleaned)
    IN IF cleaned = <<>> THEN <<>>
       ELSE IF Len(parts) < 2 THEN strip_accents(cleaned)
       ELSE LET first_initial == strip_accents(parts[1])[1]
                last_name == strip_accents(parts[Len(parts)])
                key == <<first_initial>> \o last_name
            IN Replace(Replace(key, " ", <<>>), "-", <<>>)

\* lines 54-69
generate_player_key(name, position) ==
    IF name = <<>> \/ position = <<>> THEN <<>>
    ELSE build_name_forms(name) \o <<"-">> \o <<UpperChar(position[1])>>

RECURSIVE Strings(_, _)
\* the strings over an alphabet, up to a length
Strings(chars, n) ==
    IF n = 0 THEN {<<>>}
    ELSE LET shorter == Strings(chars, n - 1)
         IN shorter \cup {Append(t, c) : t \in shorter, c \in chars}

PositionInputs == {<<>>, <<"c">>, <<"G", "a">>}

CallKey ==
    /\ pc = "idle" /\ runs = 0
    /\ keyCall.state = "idle"
    /\ \E name \in Strings(NameChars, MaxNameLen), position \in PositionInputs :
         keyCall' = [NoKeyCall EXCEPT !.state = "called", !.name = name,
                                      !.position = position]
    /\ UNCHANGED <<pipeVars, call, gameStateAtFetch, calc, lastRebuild, sched,
                   merge, net>>

ReturnKey ==
    /\ keyCall.state = "called"
    /\ keyCall' = [keyCall EXCEPT
                     !.state = "returned",
                     !.value = generate_player_key(keyCall.name, keyCall.position)]
    /\ UNCHANGED <<pipeVars, call, gameStateAtFetch, calc, lastRebuild, sched,
                   merge, net>>

NextKeyCall ==
    /\ keyCall.state = "returned"
    /\ keyCall' = NoKeyCall
    /\ UNCHANGED <<pipeVars, call, gameStateAtFetch, calc, lastRebuild, sched,
                   merge, net>>

NextKey ==
    \/ CallKey
    \/ ReturnKey
    \/ NextKeyCall

SpecKey == Init /\ [][NextKey]_vars

(* ------------------- bulk_merge_data, statement by statement ----------- *)
\* lines 45-63: called with a list of items; session.merge of the items in
\* failing will raise
CallBulkMerge ==
    /\ pc = "idle" /\ runs = 0
    /\ merge.state = "idle"
    /\ \E n \in 0..MaxItems :
         \E failing \in SUBSET (1..n) :
            merge' = [NoMerge EXCEPT
                        !.data = [i \in 1..n |-> i],
                        !.failing = failing,
                        !.state = IF n = 0 THEN "returned" ELSE "merging",
                        !.value = IF n = 0 THEN Some(0) ELSE None]
    /\ UNCHANGED <<pipeVars, call, gameStateAtFetch, calc, lastRebuild, sched,
                   keyCall, net>>

\* lines 65-72: one pass of the loop
MergeItem ==
    /\ merge.state = "merging"
    /\ Len(merge.session) + Len(merge.failed_items) < Len(merge.data)
    /\ LET item == merge.data[Len(merge.session) + Len(merge.failed_items) + 1]
       IN IF item \in merge.failing
          THEN merge' = [merge EXCEPT !.failed_items = Append(@, item)]
          ELSE merge' = [merge EXCEPT !.session = Append(@, item),
                                      !.merged_count = @ + 1]
    /\ UNCHANGED <<pipeVars, call, gameStateAtFetch, calc, lastRebuild, sched,
                   keyCall, net>>

\* lines 74-79: after the loop the count is returned; no statement raises
EndBulkMerge ==
    /\ merge.state = "merging"
    /\ Len(merge.session) + Len(merge.failed_items) = Len(merge.data)
    /\ merge' = [merge EXCEPT !.state = "returned",
                              !.value = Some(merge.merged_count)]
    /\ UNCHANGED <<pipeVars, call, gameStateAtFetch, calc, lastRebuild, sched,
                   keyCall, net>>

NextBulkMerge ==
    /\ merge.state \in {"returned", "raised"}
    /\ merge' = NoMerge
    /\ UNCHANGED <<pipeVars, call, gameStateAtFetch, calc, lastRebuild, sched,
                   keyCall, net>>

NextMerge ==
    \/ CallBulkMerge
    \/ MergeItem
    \/ EndBulkMerge
    \/ NextBulkMerge

SpecMerge == Init /\ [][NextMerge]_vars

(* ----------------------------- get_schedule ---------------------------- *)
\* What the club-schedule-season endpoint can answer for one team: an error
\* (transport, status, or a payload that does not validate), or a list of
\* games, each with an id and a gameType (1 preseason, 2 regular season)
TeamAnswers ==
    {[ok |-> FALSE, games |-> {}]}
    \cup {[ok |-> TRUE, games |-> S] : S \in SUBSET (Games \X {1, REGULAR_SEASON})}

\* lines 76-84: the entry stored for a game
ScheduleEntry(id) == [game_id |-> ToString(id), id |-> id]

\* A team schedule that keeps the games of every type
TeamGames_AllTypes(answer) ==
    IF ~answer.ok THEN EmptyMap
    ELSE [id \in {g[1] : g \in answer.games} |-> ScheduleEntry(id)]

\* fetch_team_schedule, lines 67-92: the dict of the regular-season games of
\* the answer, {} when anything went wrong
TeamGames(answer) ==
    IF ~answer.ok THEN EmptyMap
    ELSE [id \in {g[1] : g \in {x \in answer.games : x[2] = REGULAR_SEASON}} |->
            ScheduleEntry(id)]

\* dict.update
Update(d, e) == [k \in DOMAIN d \cup DOMAIN e |-> IF k \in DOMAIN e THEN e[k] ELSE d[k]]

RECURSIVE UniqueGames(_, _, _)
\* get_all_unique_games, lines 111-113: the results merged in task order
UniqueGames(unique_games, results, i) ==
    IF i > Len(NHL_TEAMS) THEN unique_games
    ELSE UniqueGames(Update(unique_games, results[NHL_TEAMS[i]]), results, i + 1)

\* json.dump of a dict with int keys: the keys are written as strings
JsonDump(d) ==
    [k \in {ToString(i) : i \in DOMAIN d} |->
       d[CHOOSE i \in DOMAIN d : ToString(i) = k]]

\* load_data_from_cache: the parsed file, None when it is absent or cannot be
\* read
load_data_from_cache(file) ==
    IF file.kind \in {"absent", "corrupt"} THEN None ELSE Some(file)

\* line 122:  cached and isinstance(cached, dict)
UsableSchedule(cached) ==
    /\ cached # None
    /\ cached[1].kind = "dict"
    /\ DOMAIN cached[1].data # {}

\* get_schedule up to the first await (lines 120-130)
GetSchedule ==
    /\ pc = "idle" /\ runs = 0
    /\ sched.state = "idle"
    /\ \E force_refresh \in BOOLEAN, answers \in [Range(NHL_TEAMS) -> TeamAnswers] :
         LET cached == load_data_from_cache(sched.file)
             c == [NoSched EXCEPT !.file = sched.file, !.before = sched.file,
                                  !.force_refresh = force_refresh]
         IN IF ~force_refresh /\ UsableSchedule(cached)
            THEN sched' = [c EXCEPT !.state = "returned",
                                    !.value = Some(cached[1].data)]
            ELSE sched' = [c EXCEPT !.state = "fetching", !.answers = answers]
    /\ UNCHANGED <<pipeVars, call, gameStateAtFetch, calc, lastRebuild, merge,
                   keyCall, net>>

\* one task of the gather resolves (fetch_team_schedule, lines 67-92)
FetchTeamSchedule ==
    /\ sched.state = "fetching"
    /\ \E t \in Range(NHL_TEAMS) \ DOMAIN sched.results :
         sched' = [sched EXCEPT
                     !.requests[t] = @ + 1,
                     !.results = Put(@, t, TeamGames(sched.answers[t]))]
    /\ UNCHANGED <<pipeVars, call, gameStateAtFetch, calc, lastRebuild, merge,
                   keyCall, net>>

\* lines 110-113 and 136-137: merge, save, return
ReturnSchedule ==
    /\ sched.state = "fetching"
    /\ DOMAIN sched.results = Range(NHL_TEAMS)
    /\ LET unique_games == UniqueGames(EmptyMap, sched.results, 1)
       IN sched' = [sched EXCEPT
                      !.state = "returned",
                      !.file = [kind |-> "dict", data |-> JsonDump(unique_games)],
                      !.value = Some(unique_games)]
    /\ UNCHANGED <<pipeVars, call, gameStateAtFetch, calc, lastRebuild, merge,
                   keyCall, net>>

\* the caller goes on; the file stays
NextScheduleCall ==
    /\ sched.state = "returned"
    /\ sched' = [NoSched EXCEPT !.file = sched.file, !.before = sched.file]
    /\ UNCHANGED <<pipeVars, call, gameStateAtFetch, calc, lastRebuild, merge,
                   keyCall, net>>

\* between calls the file is removed, truncated, or replaced by a JSON list
ScheduleCacheEdit ==
    /\ sched.state = "idle"
    /\ \E k \in {"absent", "corrupt", "list"} :
         /\ sched.file.kind # k
         /\ sched' = [sched EXCEPT !.file = [kind |-> k, data |-> EmptyMap],
                                   !.before = [kind |-> k, data |-> EmptyMap]]
    /\ UNCHANGED <<pipeVars, call, gameStateAtFetch, calc, lastRebuild, merge,
                   keyCall, net>>

NextSchedule ==
    \/ GetSchedule
    \/ FetchTeamSchedule
    \/ ReturnSchedule
    \/ NextScheduleCall
    \/ ScheduleCacheEdit

SpecSchedule == Init /\ [][NextSchedule]_vars

(* ------------- scripts/seed_pro_players.py between the runs ----------- *)
\* ProPlayers rows whose totals are not what the game rows add up to: left by
\* an earlier version, a double count or a hand edit
DriftedRows(p) ==
    {[ProPlayers(p, g) EXCEPT !.season_games_played = n,
                              !.season_total_fpts = 100 * n,
                              !.season_goals = n, !.season_wins = n] :
       g \in BOOLEAN, n \in 0..MaxDrift}

\* the ProPlayers table drifts
Drift ==
    /\ pc = "idle"
    /\ \E p \in Players :
         \/ /\ p \in DOMAIN proPlayers
            /\ proPlayers' = [q \in DOMAIN proPlayers \ {p} |-> proPlayers[q]]
         \/ \E row \in DriftedRows(p) : proPlayers' = Put(proPlayers, p, row)
    /\ proPlayers' # proPlayers
    /\ UNCHANGED <<cacheFile, skaterTbl, goalieTbl, procVars, feed, runs,
                   damage, histVars, unitVars>>

\* populate_pro_players() run as a script, or by seed_past_game_data.main
\* after its process_games call (line 109)
PopulateProPlayers ==
    /\ pc = "idle"
    /\ proPlayers' = populate_pro_players(proPlayers, skaterTbl, goalieTbl)
    /\ lastRebuild' = [n |-> IF lastRebuild.n >= 1 /\ lastRebuild.db = Db THEN 2 ELSE 1,
                   db |-> [skater |-> skaterTbl, goalie |-> goalieTbl,
                           pro |-> proPlayers'],
                   before |-> proPlayers]
    /\ UNCHANGED <<cacheFile, skaterTbl, goalieTbl, procVars, feed, runs,
                   damage, histVars, call, gameStateAtFetch, calc, sched,
                   merge, keyCall, net>>

NextRows ==
    \/ TakeRecord
    \/ BuildRow
    \/ NextRecord

SpecRows == Init /\ [][NextRows]_vars

\* a bulk load without incremental updates, then the full rebuild
NextRebuild ==
    \/ NewBackfillProcessor
    \/ LoadAndPartition
    \/ FetchFreshGameData
    \/ UpdateOnDiskCache
    \/ WriteDataToDbHealthy
    \/ Drift
    \/ PopulateProPlayers

SpecRebuild == Init /\ [][NextRebuild]_vars

Next ==
    \/ NewProcessor
    \/ LoadAndPartition
    \/ FetchFreshGameData
    \/ UpdateOnDiskCache
    \/ WriteDataToDb
    \/ CacheFileDamage

Spec == Init /\ [][Next]_vars

\* the daily update script run day after day
NextDaily ==
    \/ NewDailyProcessor
    \/ LoadAndPartition
    \/ FetchFreshGameData
    \/ UpdateOnDiskCache
    \/ WriteDataToDb
    \/ CacheFileDamage

SpecDaily == Init /\ [][NextDaily]_vars

\* games ingested incrementally, each fetched once
NextBackfill ==
    \/ NewBackfillProcessor
    \/ LoadAndPartition
    \/ FetchFreshGameData
    \/ UpdateOnDiskCache
    \/ WriteDataToDbHealthy

SpecBackfill == Init /\ [][NextBackfill]_vars

\* any caller, a healthy database, an upstream that answers with any ids
NextAnyId ==
    \/ NewProcessor
    \/ LoadAndPartition
    \/ FetchFreshGameDataAnyId
    \/ UpdateOnDiskCache
    \/ WriteDataToDbHealthy

SpecAnyId == Init /\ [][NextAnyId]_vars

\* the daily update script, a healthy database and an intact cache file,
\* while some of the games it asks about are still being played
NextLive ==
    \/ NewDailyProcessor
    \/ LoadAndPartition
    \/ FetchFreshGameDataLive
    \/ UpdateOnDiskCache
    \/ WriteDataToDbHealthy

SpecLive == Init /\ [][NextLive]_vars


(* ======================= properties ==================================== *)
AllRows == skaterTbl \cup goalieTbl
RunEnded == pc = "idle" /\ runs > 0
RowsOfGame(rows, g) == {r \in rows : r.game_id = g}
EntryIsFinal(g) ==
    g \in DOMAIN game_stats_cache_on_disk
    /\ game_stats_cache_on_disk[g].status = "final"
EntryIsCorrupt(g) ==
    \/ ~game_stats_cache_on_disk[g].boxOk
    \/ game_stats_cache_on_disk[g].badPlayers # {}

\* C1: with use_cache = True and the incremental update enabled, every
\* (game_id, player_id) row of the game tables has been added to the season
\* aggregates exactly once, whatever fetches failed, whatever cache entries
\* were damaged and whatever commits were rolled back before.
C1_ExactlyOnce == \A r \in AllRows : contrib[Key(r)] = 1

\* C2: no row of PlayerGameStats or GoalieGameStats lacks the fields that
\* only the boxscore merge provides (name and position keep their "N/A"
\* default until merge_skater_stats / merge_goalie_stats has run).
C2_NoUnmergedRow ==
    \A r \in AllRows : r.player_name # "N/A" /\ r.position # "N/A"

\* C3 as written: a run with use_cache = True and the incremental update
\* enabled, all of whose ids are cached with status "final", changes no
\* ProPlayers row, and the aggregate update never receives a row of a game
\* that was not fetched in that call.
C3_Original ==
    (RunEnded /\ use_cache /\ perform_incremental_update)
    => /\ (Range(game_ids_from_cache) = Range(game_ids_to_process)
             => proPlayers = dbBefore.pro)
       /\ \A r \in incrRows : r.game_id \in Range(game_ids_to_fetch_fresh)

\* C3 amended: such a run changes no ProPlayers row when all of its ids are
\* cached "final" and every entry deserializes (nothing is demoted to the
\* fresh-fetch list), and the aggregate update receives rows of games on the
\* fresh-fetch list only.
C3_CacheHitFrame ==
    (RunEnded /\ use_cache /\ perform_incremental_update)
    => /\ (Range(game_ids_from_cache) = Range(game_ids_to_process)
           /\ game_ids_to_fetch_fresh = <<>>
             => proPlayers = dbBefore.pro)
       /\ \A r \in incrRows : r.game_id \in Range(game_ids_to_fetch_fresh)

C3_Witness ==
    /\ RunEnded /\ use_cache /\ perform_incremental_update
    /\ Range(game_ids_from_cache) = Range(game_ids_to_process)
    /\ game_ids_to_fetch_fresh = <<>>
    /\ outcome = "committed"
    /\ lastPersisted # {}
    /\ proPlayers # EmptyMap

\* C4: after any sequence of backfill batches (use_cache = False, incremental
\* update enabled, every game requested once) on a database that shows no
\* fault of its own, every batch has committed and the season totals of every
\* player whose rows are in one table equal what populate_pro_players()
\* computes from the game tables.
PlaysOnePosition(p) ==
    ~(\E r \in skaterTbl : r.player_id = p) \/ ~(\E r \in goalieTbl : r.player_id = p)
SeasonTotals(row) == [row EXCEPT !.is_goalie = FALSE]
C4_IncrementalEqualsRebuild ==
    RunEnded
    => /\ outcome = "committed"
       /\ LET rebuilt == populate_pro_players(proPlayers, skaterTbl, goalieTbl)
          IN \A p \in DOMAIN rebuilt :
               PlaysOnePosition(p)
               => /\ p \in DOMAIN proPlayers
                  /\ SeasonTotals(proPlayers[p]) = SeasonTotals(rebuilt[p])

C6_CacheReplay ==
    (pc = "write" /\ use_cache)
    => /\ \A g \in lastFetched \cap Range(game_ids_to_process) :
            /\ g \notin Range(boxRequests)
            /\ RowsOfGame(RowsToMerge(game_cache_internal, boxscore_map), g)
                 = RowsOfGame(lastPersisted, g)
       /\ Range(game_ids_to_process) \subseteq lastFetched
            => boxRequests = <<>> /\ logRequests = <<>>

C6_Witness ==
    /\ pc = "write" /\ use_cache
    /\ Range(game_ids_to_process) \subseteq lastFetched
    /\ \E g \in Range(game_ids_to_process) : RowsOfGame(lastPersisted, g) # {}

\* C7 as written: a requested game is served from the cache without a fetch
\* iff use_cache is True and its cache entry exists with status "final";
\* every other game is on the fresh-fetch list.
C7_Original ==
    pc = "fetch"
    => \A g \in Range(game_ids_to_process) :
         /\ (g \notin Range(game_ids_to_fetch_fresh))
              <=> (use_cache /\ EntryIsFinal(g))
         /\ ~(use_cache /\ EntryIsFinal(g))
              => g \notin Range(game_ids_from_cache)

\* C7 amended: a requested game is served from the cache without a fetch iff
\* use_cache is True, its entry exists with status "final" and the entry
\* deserializes; every other game is on the fresh-fetch list, and a game
\* without a "final" entry or with use_cache = False is never on the
\* cache-hit list.
C7_Partition ==
    pc = "fetch"
    => \A g \in Range(game_ids_to_process) :
         /\ (g \notin Range(game_ids_to_fetch_fresh))
              <=> (use_cache /\ EntryIsFinal(g) /\ ~EntryIsCorrupt(g))
         /\ ~(use_cache /\ EntryIsFinal(g))
              => g \notin Range(game_ids_from_cache)
         /\ (g \notin Range(game_ids_to_fetch_fresh))
              => g \in DOMAIN boxscore_map

C7_Witness ==
    /\ pc = "fetch" /\ use_cache
    /\ \E g, h \in Range(game_ids_to_process) :
         /\ EntryIsFinal(g) /\ ~EntryIsCorrupt(g)
         /\ g \notin Range(game_ids_to_fetch_fresh)
         /\ h \in DOMAIN game_stats_cache_on_disk
         /\ game_stats_cache_on_disk[h].status # "final"
         /\ h \in Range(game_ids_to_fetch_fresh)

\* C8: when the boxscore of one requested game cannot be fetched and the
\* database shows no fault of its own, the run commits, every row built for
\* the other games is persisted, and no row is written for the failed game.
FailedGames == Range(game_ids_to_fetch_fresh) \ DOMAIN feed.box
C8_PartialFailure ==
    (RunEnded /\ fault = NoFault /\ FailedGames # {})
    => /\ outcome = "committed"
       /\ \A g \in Range(game_ids_to_process) \ FailedGames :
            RowsOfGame(RowsToMerge(game_cache_internal, boxscore_map), g)
              \subseteq AllRows
       /\ \A g \in FailedGames : RowsOfGame(lastPersisted, g) = {}

\* C9: the write phase is one transaction: every error of the database is
\* re-raised after a rollback, and a run that raised leaves the three tables
\* as it found them.
C9_SingleTransaction ==
    RunEnded
    => /\ outcome = "raised" => Db = dbBefore
       /\ fault # NoFault => outcome = "raised"

\* C10: with use_cache = True, a "final" cache entry that fails to
\* deserialize is put on the fresh-fetch list and its boxscore is requested,
\* while every other requested id keeps the partition its own entry gives it.
C10_CorruptedDemoted ==
    (pc \in {"fetch", "cache"} /\ use_cache)
    => \A g \in Range(game_ids_to_process) :
         IF EntryIsFinal(g)
         THEN IF EntryIsCorrupt(g)
              THEN /\ g \in Range(game_ids_to_fetch_fresh)
                   /\ pc = "cache" => g \in Range(boxRequests)
              ELSE /\ g \in Range(game_ids_from_cache)
                   /\ g \notin Range(game_ids_to_fetch_fresh)
                   /\ g \notin Range(boxRequests)
         ELSE /\ g \in Range(game_ids_to_fetch_fresh)
              /\ g \notin Range(game_ids_from_cache)

C10_Witness ==
    /\ pc = "cache" /\ use_cache
    /\ \E g, h \in Range(game_ids_to_process) :
         /\ EntryIsFinal(g) /\ EntryIsCorrupt(g)
         /\ g \in Range(boxRequests)
         /\ EntryIsFinal(h) /\ ~EntryIsCorrupt(h)
         /\ h \notin Range(boxRequests)

\* C11: a cache entry is written only for a game whose record set is fully
\* merged: every record in the entry's players mapping carries the boxscore
\* fields next to the player-log fields, and every player the game's boxscore
\* lists has a record in the entry.
EntriesWritten == Range(game_ids_to_fetch_fresh) \cap DOMAIN boxscore_map
C11_EntryFullyMerged ==
    pc = "write"
    => \A g \in EntriesWritten :
         /\ g \in DOMAIN cacheFile
         /\ \A p \in DOMAIN cacheFile[g].players :
              /\ cacheFile[g].players[p].position # "N/A"
              /\ cacheFile[g].players[p].name # "N/A"
         /\ \A p \in DOMAIN boxscore_map[g].roster :
              p \in DOMAIN cacheFile[g].players

\* C12: a fetch whose HTTP request hits a transient error (timeout,
\* connection error, 5xx) is attempted again, up to 3 attempts in total,
\* before it degrades to None, and a later successful attempt yields the
\* payload.
FirstFinal(sc) ==
    IF \E i \in DOMAIN sc : sc[i] \notin Transient
    THEN CHOOSE i \in DOMAIN sc : sc[i] \notin Transient
                                  /\ \A j \in 1..(i-1) : sc[j] \in Transient
    ELSE STOP_AFTER_ATTEMPT
C12_TransientRetried ==
    call.state = "returned"
    => /\ call.attempts = FirstFinal(call.script)
       /\ call.script[FirstFinal(call.script)] = "ok"
            => call.value = Some("payload")

\* C13: the fetch helpers never surface an exception: whatever the endpoint
\* answers, the call returns, its result is None unless the answer it ended on
\* was a valid payload, and the orchestrator skips a None result.
C13_NeverRaises ==
    /\ call.state # "raised"
    /\ call.state = "returned"
         => /\ call.script[call.attempts] # "ok" => call.value = None
            /\ call.script[call.attempts] = "ok" => call.value = Some("payload")
    /\ call.handled = "used" => call.value # None
    /\ call.handled = "skipped" => call.value = None

C13_Witness ==
    /\ call.state = "returned"
    /\ call.script[call.attempts] \in {"status_5xx", "invalid", "empty", "timeout"}
    /\ call.value = None
    /\ call.handled = "skipped"

\* C14: every cache entry a run writes and every row it upserts has a game id
\* of the list passed to the run, whatever id the returned boxscores carry and
\* whatever games the season logs mention.
Requested == Range(game_ids_to_process)
C14_OnlyRequestedIds ==
    [][/\ pc = "cache"
          => \A g \in DOMAIN cacheFile' :
               (g \notin DOMAIN cacheFile \/ cacheFile'[g] # cacheFile[g])
               => /\ g \in Requested
                  /\ \A p \in DOMAIN cacheFile'[g].players :
                       cacheFile'[g].players[p].gameId \in Requested
       /\ (pc = "write" /\ outcome' = "committed")
          => /\ \A r \in lastPersisted' : r.game_id \in Requested
             /\ \A r \in (skaterTbl' \cup goalieTbl') \ (skaterTbl \cup goalieTbl) :
                  r.game_id \in Requested]_vars

C14_Witness ==
    /\ RunEnded /\ outcome = "committed"
    /\ lastPersisted # {}
    /\ \E g \in DOMAIN feed.box : feed.box[g].id \notin Requested
    /\ \E p \in DOMAIN feed.log : \E e \in feed.log[p] : e.gameId \notin Requested
    /\ DOMAIN cacheFile \subseteq Requested

\* C15: the persist step covers the whole requested set: after a committed
\* run with no database fault, every record of a requested game that was
\* served from the cache has its row in the game tables, written by this run,
\* exactly as every record of a freshly fetched game has.
CacheHits == Range(game_ids_from_cache) \ Range(game_ids_to_fetch_fresh)
HasRowOf(rows, rec) ==
    \E r \in rows : /\ Key(r) = <<rec.gameId, rec.playerId>>
                    /\ r.player_name = rec.name
                    /\ r.team_abbrev = rec.teamAbbrev
                    /\ r.table = IF rec.position \in GOALIE_POSITIONS
                                 THEN "goalie" ELSE "skater"
C15_PersistFullSet ==
    (RunEnded /\ outcome = "committed" /\ fault = NoFault)
    => /\ \A g \in CacheHits :
            \A p \in DOMAIN game_stats_cache_on_disk[g].players :
               LET rec == game_stats_cache_on_disk[g].players[p]
               IN HasRowOf(AllRows, rec) /\ HasRowOf(lastPersisted, rec)
       /\ \A g \in Range(game_ids_to_fetch_fresh) \cap DOMAIN boxscore_map :
            \A p \in DOMAIN game_cache_internal[g] :
               LET rec == game_cache_internal[g][p]
               IN HasRowOf(AllRows, rec) /\ HasRowOf(lastPersisted, rec)

C15_Witness ==
    /\ RunEnded /\ outcome = "committed" /\ fault = NoFault
    /\ \E g \in CacheHits :
         /\ DOMAIN game_stats_cache_on_disk[g].players # {}
         /\ RowsOfGame(dbBefore.skater \cup dbBefore.goalie, g) = {}
         /\ RowsOfGame(AllRows, g) # {}

\* C16: the incremental update is a read-modify-write per player: after a run
\* with the incremental update on and no database fault, the run has
\* committed and every player of the batch has the totals of the row the
\* table held before (zero when it held none) plus the batch's rows.
OldTotals(p) ==
    IF p \in DOMAIN dbBefore.pro THEN dbBefore.pro[p] ELSE ProPlayers(p, FALSE)
C16_ReadModifyWrite ==
    (RunEnded /\ perform_incremental_update /\ fault = NoFault)
    => \A p \in {r.player_id : r \in incrRows} :
         LET batch == {r \in incrRows : r.player_id = p}
             fpts == [r \in batch |-> r.total_fpts]
         IN /\ outcome = "committed"
            /\ p \in DOMAIN proPlayers
            /\ proPlayers[p].season_games_played
                 = OldTotals(p).season_games_played + Cardinality(batch)
            /\ proPlayers[p].season_total_fpts
                 = OldTotals(p).season_total_fpts + SumOver(batch, fpts)

\* C17: with use_cache = True, a requested game that was finished when it was
\* last fetched is not fetched again, and a requested game that was still in
\* progress when it was last fetched is on the fresh-fetch list of every later
\* run that requests it.
C17_FreshnessPerGame ==
    (pc = "fetch" /\ use_cache)
    => \A g \in Requested \cap DOMAIN gameStateAtFetch :
         /\ gameStateAtFetch[g] = "FINAL"
              => g \notin Range(game_ids_to_fetch_fresh)
         /\ gameStateAtFetch[g] = "LIVE"
              => g \in Range(game_ids_to_fetch_fresh)

\* C18: a row whose team is the boxscore's home team has the away team as
\* opponent_abbrev, and a row whose team is the away team has the home team.
C18_OpponentResolution ==
    calc.state = "row"
    => /\ calc.row.team_abbrev = calc.boxscore.homeTeam
            => calc.row.opponent_abbrev = calc.boxscore.awayTeam
       /\ calc.row.team_abbrev = calc.boxscore.awayTeam
            => calc.row.opponent_abbrev = calc.boxscore.homeTeam

C18_Witness ==
    /\ calc.state = "row"
    /\ calc.row.team_abbrev = calc.boxscore.awayTeam
    /\ calc.row.team_abbrev = "HOM"
    /\ calc.row.opponent_abbrev = "AWY"

\* C19: the fantasy points of a skater row are goals*2 + assists*1 +
\* powerPlayPoints*0.5 + shorthandedPoints*0.5 + sog*0.1 + blockedShots*0.5 +
\* hits*0.1 (here in hundredths), and the record 2/1/1/0/4/2/3 scores 7.20.
C19_SkaterPoints ==
    (calc.state = "row" /\ calc.row.table = "skater")
    => LET st == calc.stats
       IN /\ calc.row.total_fpts =
               st.goals * 200 + st.assists * 100 + st.powerPlayPoints * 50
               + st.shorthandedPoints * 50 + st.sog * 10
               + st.blockedShots * 50 + st.hits * 10
          /\ (st.goals = 2 /\ st.assists = 1 /\ st.powerPlayPoints = 1
              /\ st.shorthandedPoints = 0 /\ st.sog = 4 /\ st.blockedShots = 2
              /\ st.hits = 3) => calc.row.total_fpts = 720

C19_Witness ==
    /\ calc.state = "row" /\ calc.row.table = "skater"
    /\ calc.stats.goals = 2 /\ calc.stats.assists = 1
    /\ calc.stats.powerPlayPoints = 1 /\ calc.stats.shorthandedPoints = 0
    /\ calc.stats.sog = 4 /\ calc.stats.blockedShots = 2 /\ calc.stats.hits = 3
    /\ calc.row.total_fpts = 720

\* C20: in a goalie row wins = 1 iff the decision is "W", ot_losses = 1 iff it
\* is "O", shutouts = 1 iff goalsAgainst is 0 and saves is present and
\* positive, and total_fpts = wins*4 + goalsAgainst*(-2) + saves*0.2 +
\* shutouts*3 + ot_losses*1 (in hundredths) with a missing number counted as
\* zero and with the flags the row stores.
Flag(b) == IF b THEN 1 ELSE 0
C20_GoaliePoints ==
    (calc.state = "row" /\ calc.row.table = "goalie")
    => LET st == calc.stats
           r == calc.row
       IN /\ r.wins = Flag(st.decision = "W")
          /\ r.ot_losses = Flag(st.decision = "O")
          /\ r.shutouts = Flag(st.goalsAgainst = Some(0) /\ st.saves # None
                               /\ OrZero(st.saves) > 0)
          /\ r.total_fpts = r.wins * 400 + OrZero(st.goalsAgainst) * (-200)
                            + OrZero(st.saves) * 20 + r.shutouts * 300
                            + r.ot_losses * 100

C20_Witness ==
    /\ calc.state = "row" /\ calc.row.table = "goalie"
    /\ calc.stats.goalsAgainst = Some(0)
    /\ calc.stats.saves \in {None, Some(0)}
    /\ calc.row.shutouts = 0
    /\ calc.stats.decision = "W"
    /\ calc.row.total_fpts = 400

\* C21: once populate_pro_players has run, every ProPlayers row holds the
\* count and the sums of that player's game rows, whatever the table held
\* before, and a second run over the same tables changes nothing.
GameRowsOf(p) == {r \in AllRows : r.player_id = p}
ColumnSum(rows, c) ==
    SumOver({r \in rows : c \in DOMAIN r},
            [r \in {x \in rows : c \in DOMAIN x} |-> r[c]])
TotalsFromRows(p) ==
    LET rows == GameRowsOf(p)
    IN [season_games_played |-> Cardinality(rows),
        season_total_fpts |-> ColumnSum(rows, "total_fpts"),
        season_goals |-> ColumnSum(rows, "goals"),
        season_assists |-> ColumnSum(rows, "assists"),
        season_pp_points |-> ColumnSum(rows, "pp_points"),
        season_sh_points |-> ColumnSum(rows, "sh_points"),
        season_shots |-> ColumnSum(rows, "shots"),
        season_blocked_shots |-> ColumnSum(rows, "blocked_shots"),
        season_hits |-> ColumnSum(rows, "hits"),
        season_wins |-> ColumnSum(rows, "wins"),
        season_shutouts |-> ColumnSum(rows, "shutouts"),
        season_ot_losses |-> ColumnSum(rows, "ot_losses"),
        season_saves |-> ColumnSum(rows, "saves"),
        season_goals_against |-> ColumnSum(rows, "goals_against")]
C21_RebuildRecovers ==
    (lastRebuild.n >= 1 /\ lastRebuild.db = Db)
    => /\ \A p \in DOMAIN proPlayers \cup {r.player_id : r \in AllRows} :
            /\ p \in DOMAIN proPlayers
            /\ \A c \in DOMAIN TotalsFromRows(p) :
                 proPlayers[p][c] = TotalsFromRows(p)[c]
       /\ lastRebuild.n = 2 => lastRebuild.before = proPlayers

\* C22: get_schedule with a usable cache and force_refresh = False returns
\* the cached mapping and sends nothing; otherwise it sends one request per
\* team, returns exactly the regular-season games of the answers that
\* arrived, each under its own id, has written that result to the cache
\* file, and does not fail when teams fail.
RegularSeasonIds ==
    {g[1] : g \in {x \in UNION {sched.answers[t].games :
                                 t \in {u \in DOMAIN sched.answers :
                                          sched.answers[u].ok}} :
                     x[2] = REGULAR_SEASON}}
C22_GetSchedule ==
    sched.state = "returned"
    => /\ sched.value # None
       /\ IF ~sched.force_refresh /\ UsableSchedule(load_data_from_cache(sched.before))
          THEN /\ sched.value[1] = sched.before.data
               /\ sched.file = sched.before
               /\ \A t \in Range(NHL_TEAMS) : sched.requests[t] = 0
          ELSE /\ \A t \in Range(NHL_TEAMS) : sched.requests[t] = 1
               /\ DOMAIN sched.value[1] = RegularSeasonIds
               /\ \A id \in DOMAIN sched.value[1] : sched.value[1][id].id = id
               /\ sched.file = [kind |-> "dict", data |-> JsonDump(sched.value[1])]

C22_Witness ==
    /\ sched.state = "returned"
    /\ sched.force_refresh
    /\ sched.before.kind = "dict"
    /\ \E t, u \in Range(NHL_TEAMS) :
         /\ t # u
         /\ <<1, REGULAR_SEASON>> \in sched.answers[t].games
         /\ <<2, 1>> \in sched.answers[t].games
         /\ ~sched.answers[u].ok
    /\ DOMAIN sched.value[1] = {1}

\* C23: bulk_merge_data ends only after every item was tried; with no
\* failure it returns the number of items merged (0 for an empty list), and
\* with failures it raises the error of the first item that failed.
C23_MergeReraises ==
    merge.state \in {"returned", "raised"}
    => /\ Len(merge.session) + Len(merge.failed_items) = Len(merge.data)
       /\ IF merge.failing = {}
          THEN /\ merge.state = "returned"
               /\ merge.value = Some(Len(merge.data))
          ELSE /\ merge.state = "raised"
               /\ merge.error = Some(merge.failed_items[1])

\* C24 as stated: generate_player_key returns "" when name or position is
\* empty; otherwise the initial of the first name token followed by the last
\* name token, the tokens being those of the lower-cased name with hyphens
\* read as spaces and dots and accents removed (a single token is used
\* whole), then "-", then the upper-cased first character of position.
StatedTokens(name) ==
    Split(strip_accents(Replace(Replace(Lower(name), "-", <<" ">>), ".", <<>>)))
KeyOfTokens(tokens) ==
    IF Len(tokens) = 1 THEN tokens[1]
    ELSE <<tokens[1][1]>> \o tokens[Len(tokens)]
C24_Original ==
    keyCall.state = "returned"
    => IF keyCall.name = <<>> \/ keyCall.position = <<>>
       THEN keyCall.value = <<>>
       ELSE StatedTokens(keyCall.name) # <<>>
            => keyCall.value = KeyOfTokens(StatedTokens(keyCall.name))
                               \o <<"-", UpperChar(keyCall.position[1])>>

\* C24: as stated, except that a dot standing directly between two unaccented
\* letters also ends a token (the dots taken from left to right, a letter
\* serving one dot only): "ba.b" is the two tokens "ba" and "b".
AmendedTokens(name) ==
    Split(strip_accents(
            Replace(SplitInitials(Replace(Lower(name), "-", <<" ">>)), ".", <<>>)))
C24_KeyFromTokens ==
    keyCall.state = "returned"
    => IF keyCall.name = <<>> \/ keyCall.position = <<>>
       THEN keyCall.value = <<>>
       ELSE AmendedTokens(keyCall.name) # <<>>
            => keyCall.value = KeyOfTokens(AmendedTokens(keyCall.name))
                               \o <<"-", UpperChar(keyCall.position[1])>>

C24_Witness ==
    /\ keyCall.state = "returned"
    /\ keyCall.name = <<"B", "a", ".", "B">>
    /\ keyCall.position = <<"G", "a">>
    /\ keyCall.value = <<"b", "b", "-", "G">>

\* C25: while the cache file holds the "final" entry this run wrote for a
\* game, the rows of that game built by this run are committed.
RowsOfRun == RowsToMerge(game_cache_internal, boxscore_map)
C25_CacheAfterCommit ==
    (pc = "write" \/ RunEnded)
    => \A g \in EntriesWritten :
         (/\ g \in DOMAIN cacheFile
          /\ cacheFile[g] = CacheEntry(boxscore_map[g], game_cache_internal[g]))
         => /\ pc = "idle"
            /\ outcome = "committed"
            /\ fault.merge = {} => RowsOfGame(RowsOfRun, g) \subseteq AllRows

\* C26: a player-log request is sent only when every boxscore request of
\* the run has resolved; the players whose logs are requested are exactly
\* the player ids of the boxscores that came back, and at the end of the
\* fetch phase each of them was requested exactly once.
LogsRequested == {p \in DOMAIN net.logSent : net.logSent[p] > 0}
C26_BoxscoresBeforeLogs ==
    /\ LogsRequested # {} => \A g \in DOMAIN net.box : net.box[g].state = "done"
    /\ LogsRequested \subseteq PlayerIdsOf(net.box)
    /\ \A p \in DOMAIN net.logSent : net.logSent[p] <= 1
    /\ net.phase = "done" => LogsRequested = PlayerIdsOf(net.box)

C26_Witness ==
    /\ net.phase = "done"
    /\ Len(net.fresh) = 3
    /\ net.box[1].result = Some({1, 2})
    /\ net.box[2].result = None
    /\ net.box[3].result = Some({1})
    /\ LogsRequested = {1, 2}

\* C27: never more than CONCURRENCY_LIMIT requests in flight, boxscore and
\* log requests counted together against the one semaphore of the run.
C27_BoundedInFlight ==
    /\ Cardinality(InFlight(net.box)) + Cardinality(InFlight(net.log))
         <= CONCURRENCY_LIMIT
    /\ net.phase # "idle"
       => net.permits = CONCURRENCY_LIMIT - Cardinality(InFlight(net.box))
                        - Cardinality(InFlight(net.log))

C27_Witness ==
    /\ net.phase = "boxscores"
    /\ Cardinality(InFlight(net.box)) = CONCURRENCY_LIMIT
    /\ \E g \in DOMAIN net.box : net.box[g].state = "waiting"

\* C28: after the partition step the cache-hit list and the fresh-fetch list
\* are disjoint and together hold exactly the requested ids, also when a
\* cached entry failed to deserialize and was demoted.
C28_ExactlyOnePartition ==
    pc = "fetch"
    => /\ Range(game_ids_from_cache) \cap Range(game_ids_to_fetch_fresh) = {}
       /\ Range(game_ids_from_cache) \cup Range(game_ids_to_fetch_fresh)
            = Range(game_ids_to_process)

\* C29: a run with perform_incremental_update = False leaves the ProPlayers
\* table as it found it, and leaves the two game tables as the same run with
\* the flag enabled would have left them.
GameTablesWithFlag ==
    LET inc == RowsForIncrementalUpdate(RowsOfRun, game_ids_to_fetch_fresh)
        upd == UpdateProPlayersIncrementally(
                 dbBefore.pro,
                 {r \in inc : r.table = "skater"},
                 {r \in inc : r.table = "goalie"})
        raised == fault.commit \/ upd.added \cap DOMAIN dbBefore.pro # {}
    IN IF raised
       THEN [skater |-> dbBefore.skater, goalie |-> dbBefore.goalie]
       ELSE [skater |-> bulk_merge_data(dbBefore.skater,
                                        {r \in RowsOfRun : r.table = "skater"},
                                        fault.merge),
             goalie |-> bulk_merge_data(dbBefore.goalie,
                                        {r \in RowsOfRun : r.table = "goalie"},
                                        fault.merge)]
C29_FlagOffFrame ==
    (RunEnded /\ ~perform_incremental_update)
    => /\ proPlayers = dbBefore.pro
       /\ skaterTbl = GameTablesWithFlag.skater
       /\ goalieTbl = GameTablesWithFlag.goalie

\* C30: no (game_id, player_id) key is in both game tables; the skater table
\* holds no row with a goalie position code and the goalie table holds
\* goalie rows only.
C30_OneTablePerKey ==
    /\ {Key(r) : r \in skaterTbl} \cap {Key(r) : r \in goalieTbl} = {}
    /\ \A r \in skaterTbl : r.table = "skater" /\ r.position \notin GOALIE_POSITIONS
    /\ \A r \in goalieTbl : r.table = "goalie"


=============================================================================
